---- MODULE Spec2Model ----
\* Verification model of the WebGL ray-tracing renderer: the Camera
\* (src/src/camera.js), the SceneFlattener (src/src/SceneFlattener.js), the
\* scene-buffer upload and the scene-load / frame protocol of WebGLRenderer
\* (src/src/render.js) and the record layout read by the fragment shader
\* (src/shaders/test.frag).
\*
\* Numbers: every input is drawn from integer sets on which the floating-point
\* arithmetic of the code is exact (axis-aligned unit vectors, right angles),
\* so the integer arithmetic below computes what the code computes.
EXTENDS Integers, Sequences, FiniteSets, TLC

VARIABLES
    camera,      \* the Camera object: its fields (camera.js:7-26)
    camCall,     \* the camera method called last and how it returned
    graph,       \* the scene graph handed to SceneFlattener (nodes by id)
    flattener,   \* the SceneFlattener object: its fields (SceneFlattener.js:11-17)
    renderer,    \* the WebGLRenderer fields a frame reads (render.js:17-36)
    loads,       \* the runs of reader.onload so far, in order, and how far each got
    frame,       \* the uniforms and bindings of the frame drawn last (render.js:308-395)
    console,     \* the messages written with console.error and console.warn so far
    browser,     \* the page: runs of init(), change listeners, animation-frame callbacks
    ray          \* one call of the shader's traceRay: its inputs and what it returned

vars == <<camera, camCall, graph, flattener, renderer, loads, frame, console, browser, ray>>

\* ---------------------------------------------------------------------------
\* gl-matrix primitives as camera.js uses them.  A vec3 is <<x,y,z>>; a mat4 is
\* a 16-tuple in gl-matrix's column-major order: source index i is tuple
\* index i+1, element (row r, column c) is source index c*4+r.
\* ---------------------------------------------------------------------------
Zero3 == <<0, 0, 0>>

Vec3Sub(a, b) == <<a[1] - b[1], a[2] - b[2], a[3] - b[3]>>

Vec3Negate(a) == <<0 - a[1], 0 - a[2], 0 - a[3]>>

Vec3Scale(a, k) == <<a[1] * k, a[2] * k, a[3] * k>>

Vec3Cross(a, b) ==
    <<a[2] * b[3] - a[3] * b[2], a[3] * b[1] - a[1] * b[3], a[1] * b[2] - a[2] * b[1]>>

Vec3Dot(a, b) == a[1] * b[1] + a[2] * b[2] + a[3] * b[3]

\* Square root on the perfect squares the inputs produce.
MaxRoot == 16

ISqrt(q) == CHOOSE r \in 0..MaxRoot : r * r = q

Vec3Length(a) == ISqrt(Vec3Dot(a, a))

\* vec3.normalize: a zero vector stays zero.
Vec3Normalize(a) ==
    IF Vec3Dot(a, a) = 0 THEN Zero3
    ELSE LET len == Vec3Length(a)
         IN <<a[1] \div len, a[2] \div len, a[3] \div len>>

Mat4Identity == <<1, 0, 0, 0,  0, 1, 0, 0,  0, 0, 1, 0,  0, 0, 0, 1>>

\* mat4.multiply(out, a, b): out = a * b.
Mat4Multiply(a, b) ==
    LET e(i) ==
          LET r == (i - 1) % 4
              c == (i - 1) \div 4
          IN a[r + 1] * b[c * 4 + 1] + a[4 + r + 1] * b[c * 4 + 2]
             + a[8 + r + 1] * b[c * 4 + 3] + a[12 + r + 1] * b[c * 4 + 4]
    IN <<e(1), e(2), e(3), e(4), e(5), e(6), e(7), e(8),
         e(9), e(10), e(11), e(12), e(13), e(14), e(15), e(16)>>

Mat4FromTranslation(v) ==
    <<1, 0, 0, 0,  0, 1, 0, 0,  0, 0, 1, 0,  v[1], v[2], v[3], 1>>

Mat4Transpose(a) ==
    <<a[1], a[5], a[9], a[13],  a[2], a[6], a[10], a[14],
      a[3], a[7], a[11], a[15],  a[4], a[8], a[12], a[16]>>

\* sin and cos of an angle in degrees, on the multiples of 90 degrees.
SinDeg(d) == CASE d % 360 = 0 -> 0 [] d % 360 = 90 -> 1
               [] d % 360 = 180 -> 0 [] d % 360 = 270 -> 0 - 1

CosDeg(d) == CASE d % 360 = 0 -> 1 [] d % 360 = 90 -> 0
               [] d % 360 = 180 -> 0 - 1 [] d % 360 = 270 -> 0

\* mat4.fromRotation with the sine and the cosine exchanged.
Mat4FromRotationSinCos(deg, axis) ==
    LET ax == Vec3Normalize(axis)
        x == ax[1]
        y == ax[2]
        z == ax[3]
        s == CosDeg(deg)
        c == SinDeg(deg)
        t == 1 - c
    IN <<x * x * t + c,     y * x * t + z * s, z * x * t - y * s, 0,
         x * y * t - z * s, y * y * t + c,     z * y * t + x * s, 0,
         x * z * t + y * s, y * z * t - x * s, z * z * t + c,     0,
         0, 0, 0, 1>>

\* mat4.fromRotation(out, rad, axis) for a non-zero axis (a zero axis makes it
\* return null, see RotateThrows).
Mat4FromRotation(deg, axis) ==
    LET ax == Vec3Normalize(axis)
        x == ax[1]
        y == ax[2]
        z == ax[3]
        s == SinDeg(deg)
        c == CosDeg(deg)
        t == 1 - c
    IN <<x * x * t + c,     y * x * t + z * s, z * x * t - y * s, 0,
         x * y * t - z * s, y * y * t + c,     z * y * t + x * s, 0,
         x * z * t + y * s, y * z * t - x * s, z * z * t + c,     0,
         0, 0, 0, 1>>

\* The determinant mat4.invert computes.
Mat4Det(a) ==
    LET b00 == a[1] * a[6] - a[2] * a[5]
        b01 == a[1] * a[7] - a[3] * a[5]
        b02 == a[1] * a[8] - a[4] * a[5]
        b03 == a[2] * a[7] - a[3] * a[6]
        b04 == a[2] * a[8] - a[4] * a[6]
        b05 == a[3] * a[8] - a[4] * a[7]
        b06 == a[9] * a[14] - a[10] * a[13]
        b07 == a[9] * a[15] - a[11] * a[13]
        b08 == a[9] * a[16] - a[12] * a[13]
        b09 == a[10] * a[15] - a[11] * a[14]
        b10 == a[10] * a[16] - a[12] * a[14]
        b11 == a[11] * a[16] - a[12] * a[15]
    IN b00 * b11 - b01 * b10 + b02 * b09 + b03 * b08 - b04 * b07 + b05 * b06

\* mat4.invert(out, a): the adjugate over the determinant; with a zero
\* determinant it returns null and leaves out, here old, as it was.
Mat4Invert(old, a) ==
    LET a00 == a[1]   a01 == a[2]   a02 == a[3]   a03 == a[4]
        a10 == a[5]   a11 == a[6]   a12 == a[7]   a13 == a[8]
        a20 == a[9]   a21 == a[10]  a22 == a[11]  a23 == a[12]
        a30 == a[13]  a31 == a[14]  a32 == a[15]  a33 == a[16]
        b00 == a00 * a11 - a01 * a10
        b01 == a00 * a12 - a02 * a10
        b02 == a00 * a13 - a03 * a10
        b03 == a01 * a12 - a02 * a11
        b04 == a01 * a13 - a03 * a11
        b05 == a02 * a13 - a03 * a12
        b06 == a20 * a31 - a21 * a30
        b07 == a20 * a32 - a22 * a30
        b08 == a20 * a33 - a23 * a30
        b09 == a21 * a32 - a22 * a31
        b10 == a21 * a33 - a23 * a31
        b11 == a22 * a33 - a23 * a32
        det == Mat4Det(a)
    IN IF det = 0 THEN old
       ELSE << (a11 * b11 - a12 * b10 + a13 * b09) \div det,
               (a02 * b10 - a01 * b11 - a03 * b09) \div det,
               (a31 * b05 - a32 * b04 + a33 * b03) \div det,
               (a22 * b04 - a21 * b05 - a23 * b03) \div det,
               (a12 * b08 - a10 * b11 - a13 * b07) \div det,
               (a00 * b11 - a02 * b08 + a03 * b07) \div det,
               (a32 * b02 - a30 * b05 - a33 * b01) \div det,
               (a20 * b05 - a22 * b02 + a23 * b01) \div det,
               (a10 * b10 - a11 * b08 + a13 * b06) \div det,
               (a01 * b08 - a00 * b10 - a03 * b06) \div det,
               (a30 * b04 - a31 * b02 + a33 * b00) \div det,
               (a21 * b02 - a20 * b04 - a23 * b00) \div det,
               (a11 * b07 - a10 * b09 - a12 * b06) \div det,
               (a00 * b09 - a01 * b07 + a02 * b06) \div det,
               (a31 * b01 - a30 * b03 - a32 * b00) \div det,
               (a20 * b03 - a21 * b01 + a22 * b00) \div det >>

\* ---------------------------------------------------------------------------
\* Camera (src/src/camera.js)
\* ---------------------------------------------------------------------------
DEFAULT_FOCUS_LENGTH == 1

\* NEAR_PLANE = 0.01, kept in hundredths.
NEAR_PLANE == 1

\* FAR_PLANE = 20.0, kept in hundredths.
FAR_PLANE == 2000

VIEW_ANGLE == 60

\* isNullVector(v): vec3.length(v) < Number.EPSILON.
IsNullVector(v) == Vec3Dot(v, v) = 0

GetEyePoint(cam) ==
    <<cam.cameraToWorldMat4[13], cam.cameraToWorldMat4[14], cam.cameraToWorldMat4[15]>>

\* getLookVector without the negation: the third basis column itself.
GetLookVectorNotNegated(cam) ==
    <<cam.cameraToWorldMat4[9], cam.cameraToWorldMat4[10], cam.cameraToWorldMat4[11]>>

GetLookVector(cam) ==
    Vec3Negate(<<cam.cameraToWorldMat4[9], cam.cameraToWorldMat4[10],
                 cam.cameraToWorldMat4[11]>>)

GetUpVector(cam) ==
    <<cam.cameraToWorldMat4[5], cam.cameraToWorldMat4[6], cam.cameraToWorldMat4[7]>>

\* The orientation matrix of orientLookVec: mat4.fromValues lists columns, so
\* its rows are u, v, n.
OrientMatrix(u, v, n) ==
    <<u[1], v[1], n[1], 0,
      u[2], v[2], n[2], 0,
      u[3], v[3], n[3], 0,
      0, 0, 0, 1>>

\* orientLookVec without the test of the up vector.
OrientLookVecNoUpTest(cam, eyePoint, lookVec, upVec) ==
    IF IsNullVector(lookVec) THEN cam
    ELSE LET L == Vec3Normalize(lookVec)
             n == Vec3Scale(L, 0 - 1)
             u == Vec3Normalize(Vec3Cross(L, upVec))
             v == Vec3Cross(n, u)
             orient == OrientMatrix(u, v, n)
             T1 == Mat4FromTranslation(Vec3Negate(eyePoint))
             T2 == Mat4FromTranslation(eyePoint)
         IN [cam EXCEPT !.nVec3 = n, !.uVec3 = u, !.vVec3 = v,
                        !.worldToCameraMat4 = Mat4Multiply(orient, T1),
                        !.cameraToWorldMat4 = Mat4Multiply(T2, Mat4Transpose(orient))]

OrientLookVec(cam, eyePoint, lookVec, upVec) ==
    IF IsNullVector(lookVec) \/ IsNullVector(upVec) THEN cam
    ELSE LET L == Vec3Normalize(lookVec)
             n == Vec3Scale(L, 0 - 1)
             u == Vec3Normalize(Vec3Cross(L, upVec))
             v == Vec3Cross(n, u)
             orient == OrientMatrix(u, v, n)
             T1 == Mat4FromTranslation(Vec3Negate(eyePoint))
             T2 == Mat4FromTranslation(eyePoint)
         IN [cam EXCEPT !.nVec3 = n, !.uVec3 = u, !.vVec3 = v,
                        !.worldToCameraMat4 = Mat4Multiply(orient, T1),
                        !.cameraToWorldMat4 = Mat4Multiply(T2, Mat4Transpose(orient))]

OrientLookAt(cam, eyePoint, focusPoint, upVec) ==
    OrientLookVec(cam, eyePoint, Vec3Sub(focusPoint, eyePoint), upVec)

\* The fields the constructor sets before it calls reset().
CameraFields ==
    [viewAngle |-> VIEW_ANGLE, nearPlane |-> NEAR_PLANE, farPlane |-> FAR_PLANE,
     screenWidthRatio |-> 1, rotU |-> 0, rotV |-> 0, rotW |-> 0,
     nVec3 |-> Zero3, uVec3 |-> Zero3, vVec3 |-> Zero3,
     worldToCameraMat4 |-> Mat4Identity, cameraToWorldMat4 |-> Mat4Identity]

Reset(cam) ==
    LET o == OrientLookAt(cam, <<0, 0, DEFAULT_FOCUS_LENGTH>>, Zero3, <<0, 1, 0>>)
    IN [o EXCEPT !.viewAngle = VIEW_ANGLE, !.nearPlane = NEAR_PLANE,
                 !.farPlane = FAR_PLANE, !.screenWidthRatio = 1,
                 !.rotU = 0, !.rotV = 0, !.rotW = 0]

NewCamera == Reset(CameraFields)

Translate(cam, v) ==
    [cam EXCEPT
        !.cameraToWorldMat4 = Mat4Multiply(cam.cameraToWorldMat4, Mat4FromTranslation(v)),
        !.worldToCameraMat4 =
            Mat4Multiply(Mat4FromTranslation(Vec3Negate(v)), cam.worldToCameraMat4)]

\* mat4.fromRotation returns null for a zero axis and the mat4.multiply that
\* follows throws a TypeError before the camera is touched.
RotateThrows(axis) == Vec3Dot(axis, axis) = 0

Rotate(cam, point, axis, deg) ==
    IF RotateThrows(axis) THEN cam
    ELSE LET Tm == Mat4FromTranslation(Vec3Negate(point))
             R == Mat4FromRotation(deg, axis)
             Tp == Mat4FromTranslation(point)
             M == Mat4Multiply(Tp, Mat4Multiply(R, Tm))
             c2w == Mat4Multiply(M, cam.cameraToWorldMat4)
         IN [cam EXCEPT !.cameraToWorldMat4 = c2w,
                        !.worldToCameraMat4 = Mat4Invert(cam.worldToCameraMat4, c2w)]

\* The axes rotateU, rotateV and rotateW turn the camera about
\* (camera.js:172-174).
UAxis(cam) == Vec3Cross(GetLookVector(cam), GetUpVector(cam))

VAxis(cam) == GetUpVector(cam)

WAxis(cam) == GetLookVector(cam)

\* rotateV about the world origin instead of the eye point.
RotateVAboutOrigin(cam, angle) == Rotate(cam, Zero3, VAxis(cam), angle)

RotateU(cam, angle) == Rotate(cam, GetEyePoint(cam), UAxis(cam), angle)

RotateV(cam, angle) == Rotate(cam, GetEyePoint(cam), VAxis(cam), angle)

RotateW(cam, angle) == Rotate(cam, GetEyePoint(cam), WAxis(cam), angle)

\* setRotUVW with its three rotations in the order W, V, U.
SetRotUVWReversed(cam, u, v, w) ==
    LET c1 == RotateW(cam, w - cam.rotW)
        c2 == RotateV(c1, v - cam.rotV)
        c3 == RotateU(c2, u - cam.rotU)
    IN IF RotateThrows(WAxis(cam)) THEN cam
       ELSE IF RotateThrows(VAxis(c1)) THEN c1
       ELSE IF RotateThrows(UAxis(c2)) THEN c2
       ELSE [c3 EXCEPT !.rotU = u, !.rotV = v, !.rotW = w]

\* setRotUVW(u, v, w): a rotation that throws ends the call where it stands,
\* before the angles are stored (camera.js:60-68).
SetRotUVW(cam, u, v, w) ==
    LET c1 == RotateU(cam, u - cam.rotU)
        c2 == RotateV(c1, v - cam.rotV)
        c3 == RotateW(c2, w - cam.rotW)
    IN IF RotateThrows(UAxis(cam)) THEN cam
       ELSE IF RotateThrows(VAxis(c1)) THEN c1
       ELSE IF RotateThrows(WAxis(c2)) THEN c2
       ELSE [c3 EXCEPT !.rotU = u, !.rotV = v, !.rotW = w]

SetRotUVWThrows(cam, u, v, w) ==
    LET c1 == RotateU(cam, u - cam.rotU)
        c2 == RotateV(c1, v - cam.rotV)
    IN \/ RotateThrows(UAxis(cam))
       \/ RotateThrows(VAxis(c1))
       \/ RotateThrows(WAxis(c2))

\* ---------------------------------------------------------------------------
\* Scene graph (src/src/SceneDataStructures.js).  The graph is a function from
\* node ids to SceneNode records; children are node ids, so a node listed by
\* two parents is one shared object.  Node id 0 is the null reference.
\* ---------------------------------------------------------------------------
TRANSFORMATION_TRANSLATE == 0

TRANSFORMATION_SCALE == 1

TRANSFORMATION_ROTATE == 2

TRANSFORMATION_MATRIX == 3

SHAPE_CUBE == 0

SHAPE_CYLINDER == 1

SHAPE_CONE == 2

SHAPE_SPHERE == 3
SHAPE_MESH == 7

\* The values of the two enumerations (SceneDataStructures.js:8-24).
TransformationType ==
    {TRANSFORMATION_TRANSLATE, TRANSFORMATION_SCALE, TRANSFORMATION_ROTATE,
     TRANSFORMATION_MATRIX}

PrimitiveType == SHAPE_CUBE..SHAPE_MESH

\* A value that is null or a Float32Array.
NullArray == [isNull |-> TRUE, floats |-> <<>>]

Float32Array(s) == [isNull |-> FALSE, floats |-> s]

\* Row-major identity of SceneFlattener (source index i is tuple index i+1,
\* element (row r, column c) is source index r*4+c).
IdentityMat == <<1, 0, 0, 0,  0, 1, 0, 0,  0, 0, 1, 0,  0, 0, 0, 1>>

\* new SceneTransformation(); angle is kept in degrees (the code holds radians).
SceneTransformation ==
    [type |-> TRANSFORMATION_TRANSLATE, translate |-> <<0, 0, 0>>, scale |-> <<1, 1, 1>>,
     rotate |-> <<0, 0, 1>>, angle |-> 0,
     matrix |-> <<0, 0, 0, 0,  0, 0, 0, 0,  0, 0, 0, 0,  0, 0, 0, 0>>]

\* new SceneFileMap()
SceneFileMap ==
    [isUsed |-> FALSE, filename |-> "", repeatU |-> 1, repeatV |-> 1, textureIndex |-> 0]

\* new SceneMaterial(), the fields the flattener reads
SceneMaterial ==
    [cDiffuse |-> <<1, 1, 1>>, cAmbient |-> <<0, 0, 0>>, cReflective |-> <<0, 0, 0>>,
     cSpecular |-> <<0, 0, 0>>, textureMap |-> SceneFileMap, shininess |-> 0, ior |-> 1]

\* ---------------------------------------------------------------------------
\* SceneFlattener (src/src/SceneFlattener.js)
\* ---------------------------------------------------------------------------
\* constructor(rootNode); textureMaps is unset until flatten(), read as [].
SceneFlattener(rootNode) ==
    [rootNode |-> rootNode, objectList |-> <<>>, floatsPerObject |-> 1 + 16 + 18,
     textureMaps |-> <<>>, dataArray |-> NullArray, flattened |-> FALSE]

\* _multiplyMat4 with its operands exchanged: out = B * A.
MultiplyMat4Swapped(A, B) ==
    LET o(i) ==
          LET r == (i - 1) \div 4
              c == (i - 1) % 4
          IN B[r * 4 + 1] * A[c + 1] + B[r * 4 + 2] * A[4 + c + 1]
             + B[r * 4 + 3] * A[8 + c + 1] + B[r * 4 + 4] * A[12 + c + 1]
    IN <<o(1), o(2), o(3), o(4), o(5), o(6), o(7), o(8),
         o(9), o(10), o(11), o(12), o(13), o(14), o(15), o(16)>>

\* _multiplyMat4(A, B, out): out = A * B, row-major.
MultiplyMat4(A, B) ==
    LET o(i) ==
          LET r == (i - 1) \div 4
              c == (i - 1) % 4
          IN A[r * 4 + 1] * B[c + 1] + A[r * 4 + 2] * B[4 + c + 1]
             + A[r * 4 + 3] * B[8 + c + 1] + A[r * 4 + 4] * B[12 + c + 1]
    IN <<o(1), o(2), o(3), o(4), o(5), o(6), o(7), o(8),
         o(9), o(10), o(11), o(12), o(13), o(14), o(15), o(16)>>

BuildTransformMatrix(t) ==
    CASE t.type = TRANSFORMATION_TRANSLATE ->
            [IdentityMat EXCEPT ![4] = t.translate[1], ![8] = t.translate[2],
                                ![12] = t.translate[3]]
      [] t.type = TRANSFORMATION_SCALE ->
            [IdentityMat EXCEPT ![1] = t.scale[1], ![6] = t.scale[2], ![11] = t.scale[3]]
      [] t.type = TRANSFORMATION_ROTATE ->
            IF Vec3Dot(t.rotate, t.rotate) = 0 THEN IdentityMat
            ELSE LET ax == Vec3Normalize(t.rotate)
                     ux == ax[1]
                     uy == ax[2]
                     uz == ax[3]
                     c == CosDeg(t.angle)
                     s == SinDeg(t.angle)
                 IN <<c + ux * ux * (1 - c),      ux * uy * (1 - c) - uz * s,
                      ux * uz * (1 - c) + uy * s, 0,
                      uy * ux * (1 - c) + uz * s, c + uy * uy * (1 - c),
                      uy * uz * (1 - c) - ux * s, 0,
                      uz * ux * (1 - c) - uy * s, uz * uy * (1 - c) + ux * s,
                      c + uz * uz * (1 - c),      0,
                      0, 0, 0, 1>>
      [] t.type = TRANSFORMATION_MATRIX -> t.matrix
      [] OTHER -> IdentityMat

\* The loop of _traverseNode over node.transformations.
RECURSIVE ApplyTransformations(_, _)
ApplyTransformations(ts, currentMat) ==
    IF ts = <<>> THEN currentMat
    ELSE ApplyTransformations(Tail(ts),
                              MultiplyMat4(currentMat, BuildTransformMatrix(Head(ts))))

\* A children list in which a child listed again is skipped.
NodeChildrenOnce(g, node) ==
    LET cs == g[node].children
    IN SelectSeq([i \in 1..Len(cs) |-> IF \E j \in 1..(i - 1) : cs[j] = cs[i] THEN 0 ELSE cs[i]],
                 LAMBDA c : c # 0)

\* A children list iterated from its last child to its first.
NodeChildrenReversed(g, node) ==
    [i \in 1..Len(g[node].children) |->
        g[node].children[Len(g[node].children) + 1 - i]]

\* A children list that leaves out the children with an id not above the
\* node's own, as a traversal that follows no edge back would.
NodeChildrenForward(g, node) == SelectSeq(g[node].children, LAMBDA c : c > node)

\* node.children, as _traverseNode iterates it
NodeChildren(g, node) == g[node].children

\* _traverseNode(node, parentMat): the records it pushes onto objectList, in
\* order.  A record refers to its primitive's material by <<node id, index>>.
RECURSIVE TraverseNode(_, _, _)
RECURSIVE TraverseChildren(_, _, _)
TraverseNode(g, node, parentMat) ==
    LET currentMat == ApplyTransformations(g[node].transformations, parentMat)
        own == [k \in 1..Len(g[node].primitives) |->
                   [type |-> g[node].primitives[k].type,
                    worldMatrix |-> currentMat,
                    material |-> <<node, k>>]]
    IN own \o TraverseChildren(g, NodeChildren(g, node), currentMat)

TraverseChildren(g, cs, currentMat) ==
    IF cs = <<>> THEN <<>>
    ELSE TraverseNode(g, Head(cs), currentMat) \o TraverseChildren(g, Tail(cs), currentMat)

\* obj.material of an emitted record
MaterialOf(g, ref) == g[ref[1]].primitives[ref[2]].material

\* findIndex that never finds: every used map is pushed.
FindIndexNever(g, maps, filename) == 0 - 1

\* textureMaps.findIndex(m => m.filename === filename), 0-based, -1 if absent
FindIndex(g, maps, filename) ==
    IF \E j \in 1..Len(maps) : MaterialOf(g, maps[j]).textureMap.filename = filename
    THEN (CHOOSE j \in 1..Len(maps) :
            /\ MaterialOf(g, maps[j]).textureMap.filename = filename
            /\ \A h \in 1..(j - 1) : MaterialOf(g, maps[h]).textureMap.filename # filename) - 1
    ELSE 0 - 1

\* _indexTextureMaps: the loop over objectList from position i on; it writes
\* textureIndex into the map objects of the graph and collects textureMaps.
RECURSIVE IndexTextureMaps(_, _, _, _)
IndexTextureMaps(g, objs, i, maps) ==
    IF i > Len(objs) THEN [graph |-> g, textureMaps |-> maps]
    ELSE LET ref == objs[i].material
             map == MaterialOf(g, ref).textureMap
         IN IF ~map.isUsed THEN IndexTextureMaps(g, objs, i + 1, maps)
            ELSE LET found == FindIndex(g, maps, map.filename)
                     idx == IF found < 0 THEN Len(maps) ELSE found
                     maps2 == IF found < 0 THEN Append(maps, ref) ELSE maps
                     g2 == [g EXCEPT ![ref[1]].primitives[ref[2]].material.textureMap.textureIndex = idx]
                 IN IndexTextureMaps(g2, objs, i + 1, maps2)

\* The record with shininess and ior written in the other order.
ObjectFloatsSwapped(g, obj) ==
    LET m == MaterialOf(g, obj.material)
    IN <<obj.type>> \o obj.worldMatrix
       \o m.cAmbient \o m.cDiffuse \o m.cSpecular
       \o <<m.ior, m.shininess, IF m.textureMap.isUsed THEN 1 ELSE 0,
            m.textureMap.repeatU, m.textureMap.repeatV, m.textureMap.textureIndex>>
       \o m.cReflective

\* The 35 floats _buildDataArray writes for one object, in the order written.
ObjectFloats(g, obj) ==
    LET m == MaterialOf(g, obj.material)
    IN <<obj.type>> \o obj.worldMatrix
       \o m.cAmbient \o m.cDiffuse \o m.cSpecular
       \o <<m.shininess, m.ior, IF m.textureMap.isUsed THEN 1 ELSE 0,
            m.textureMap.repeatU, m.textureMap.repeatV, m.textureMap.textureIndex>>
       \o m.cReflective

RECURSIVE BuildDataArray(_, _)
BuildDataArray(g, objs) ==
    IF objs = <<>> THEN <<>>
    ELSE ObjectFloats(g, Head(objs)) \o BuildDataArray(g, Tail(objs))

\* flatten(): the flattener and the graph (whose map objects it indexes) after it.
Flatten(fl, g) ==
    IF fl.rootNode = 0 THEN [flattener |-> fl, graph |-> g]
    ELSE LET objs == TraverseNode(g, fl.rootNode, IdentityMat)
             ix == IndexTextureMaps(g, objs, 1, <<>>)
         IN [flattener |-> [fl EXCEPT !.objectList = objs,
                                      !.textureMaps = ix.textureMaps,
                                      !.dataArray = Float32Array(BuildDataArray(ix.graph, objs)),
                                      !.flattened = TRUE],
             graph |-> ix.graph]

\* What flatten() writes to the console: the error of SceneFlattener.js:20-23
\* when there is no root node, nothing otherwise.
FlattenReports(fl) ==
    IF fl.rootNode = 0 THEN {"SceneFlattener: rootNode is null."} ELSE {}

\* What getFloat32Array() writes to the console (SceneFlattener.js:64-66).
GetFloat32ArrayWarns(fl) ==
    IF ~fl.flattened THEN {"SceneFlattener: call flatten() first."} ELSE {}

GetObjectCount(fl) == Len(fl.objectList)

GetFloat32Array(fl) == fl.dataArray

GetTextureMaps(fl) == fl.textureMaps

\* ---------------------------------------------------------------------------
\* WebGLRenderer.createSceneDataTexture (src/src/render.js)
\* ---------------------------------------------------------------------------
\* Math.ceil(n / 4) * 4
CeilTo4(n) == ((n + 3) \div 4) * 4

\* The padded buffer with rows placed floatsPerObject apart.
PaddedDataUnpadded(flatArray, objectCount, floatsPerObject, floatsPerRow) ==
    [j \in 1..(floatsPerRow * objectCount) |->
        IF j <= objectCount * floatsPerObject THEN flatArray.floats[j] ELSE 0]

\* dataArray of createSceneDataTexture: zeros, then row i of the flat array
\* copied to offset i * floatsPerRow.
PaddedData(flatArray, objectCount, floatsPerObject, floatsPerRow) ==
    [j \in 1..(floatsPerRow * objectCount) |->
        LET i == (j - 1) \div floatsPerRow
            k == (j - 1) % floatsPerRow
        IN IF k < floatsPerObject THEN flatArray.floats[i * floatsPerObject + k + 1] ELSE 0]

CreateSceneDataTexture(r, flatArray, objectCount, floatsPerObject) ==
    LET floatsPerRow == CeilTo4(floatsPerObject)
    IN [r EXCEPT !.sceneTexture =
                     Float32Array(PaddedData(flatArray, objectCount, floatsPerObject,
                                             floatsPerRow)),
                 !.objectCount = objectCount,
                 !.floatsPerObject = floatsPerObject,
                 !.floatsPerRow = floatsPerRow,
                 !.texWidth = floatsPerRow \div 4,
                 !.texHeight = objectCount]

\* ---------------------------------------------------------------------------
\* The record layout as the fragment shader reads it (src/shaders/test.frag)
\* ---------------------------------------------------------------------------
\* texelFetch(uSceneBuffer, ivec2(texelX, row), 0)[channel] on the RGBA32F
\* texture of width r.texWidth that createSceneDataTexture uploaded.
FetchFloat(r, idx, row) ==
    LET texelX == idx \div 4
        channel == idx - texelX * 4
    IN r.sceneTexture.floats[(row * r.texWidth + texelX) * 4 + channel + 1]

\* fetchWorldMatrix(idx): a GLSL mat4, M[c][r] at tuple index c*4+r+1.
FetchWorldMatrix(r, idx) ==
    LET base == 1
        M(c, rw) == FetchFloat(r, base + rw * 4 + c, idx)
    IN <<M(0, 0), M(0, 1), M(0, 2), M(0, 3),  M(1, 0), M(1, 1), M(1, 2), M(1, 3),
         M(2, 0), M(2, 1), M(2, 2), M(2, 3),  M(3, 0), M(3, 1), M(3, 2), M(3, 3)>>

\* fetchMaterial(idx)
FetchMaterial(r, idx) ==
    LET base == 1 + 16
    IN [ambientColor |-> <<FetchFloat(r, base + 0, idx), FetchFloat(r, base + 1, idx),
                           FetchFloat(r, base + 2, idx)>>,
        diffuseColor |-> <<FetchFloat(r, base + 3, idx), FetchFloat(r, base + 4, idx),
                           FetchFloat(r, base + 5, idx)>>,
        specularColor |-> <<FetchFloat(r, base + 6, idx), FetchFloat(r, base + 7, idx),
                            FetchFloat(r, base + 8, idx)>>,
        shininess |-> FetchFloat(r, base + 9, idx),
        ior |-> FetchFloat(r, base + 10, idx),
        useTexture |-> FetchFloat(r, base + 11, idx),
        repeatUV |-> <<FetchFloat(r, base + 12, idx), FetchFloat(r, base + 13, idx)>>,
        textureIndex |-> FetchFloat(r, base + 14, idx),
        reflectiveColor |-> <<FetchFloat(r, base + 15, idx), FetchFloat(r, base + 16, idx),
                              FetchFloat(r, base + 17, idx)>>]

\* int type = int(fetchFloat(0, idx)) of intersect()
FetchType(r, idx) == FetchFloat(r, 0, idx)

\* ---------------------------------------------------------------------------
\* XMLSceneParser, the load handler and renderFrame (src/src/render.js)
\* ---------------------------------------------------------------------------
\* new SceneGlobalData(); coefficients are kept in tenths.
SceneGlobalData == [ka |-> 0, kd |-> 0, ks |-> 0, kt |-> 0]

\* new SceneCameraData(), the fields the load handler reads
SceneCameraData ==
    [pos |-> Zero3, lookAt |-> Zero3, look |-> Zero3, up |-> <<0, 1, 0>>, isDir |-> TRUE]

\* new SceneLightData(), the fields renderFrame sends
SceneLightData ==
    [type |-> 0, color |-> <<1, 1, 1>>, pos |-> Zero3, dir |-> <<0, 0, 0 - 1>>,
     radius |-> 0, penumbra |-> 0, angle |-> 0, width |-> 0, height |-> 0]

\* new XMLSceneParser(): objects (the nodes by id) is empty, so getRootNode()
\* gives null (0).
XMLSceneParser ==
    [globalData |-> SceneGlobalData, cameraData |-> SceneCameraData, lights |-> <<>>,
     objects |-> <<>>, rootNode |-> 0]

\* parseFromString(xmlString) on a new parser.  A file is described by what it
\* declares; a file whose root element is not <scenefile> is refused before
\* anything is stored.
\* What parseFromString writes to the console for a file that is not a scene
\* file (render.js:499-502).
ParseReports(file) ==
    IF ~file.isSceneFile THEN {"Invalid XML: root is not <scenefile>"} ELSE {}

\* The catch block of reader.onload (render.js:156-159).
CatchReports == {"Error loading or flattening scene:"}

ParseFromString(file) ==
    IF ~file.isSceneFile THEN [parser |-> XMLSceneParser, parseOk |-> FALSE]
    ELSE [parser |-> [globalData |-> file.globalData, cameraData |-> file.cameraData,
                      lights |-> file.lights, objects |-> file.objects,
                      rootNode |-> IF file.objects = <<>> THEN 0 ELSE 1],
          parseOk |-> TRUE]

\* The renderer fields set by the constructor (render.js:17-36).
NewRenderer ==
    [sceneParser |-> XMLSceneParser,
     sceneTexture |-> NullArray, textures |-> <<>>, sceneReady |-> FALSE,
     objectCount |-> 0, floatsPerObject |-> 0, floatsPerRow |-> 0,
     texWidth |-> 0, texHeight |-> 0]

\* No frame has been drawn.
NoFrame == [drawn |-> FALSE]

\* The page before its load event: no run of init() yet, no change listener on
\* the file input, no callback queued with requestAnimationFrame, no display
\* refresh so far.  webgl2 and declared are what the page gives the script: a
\* WebGL2 context, and a global variable named renderer to assign to.
NewBrowser ==
    [webgl2 |-> TRUE, declared |-> TRUE, loaded |-> FALSE, inits |-> <<>>, listeners |-> 0,
     callbacks |-> 0, rendered |-> <<>>]

\* No call of traceRay yet.
NoRay == [traced |-> FALSE]

\* The texture loadPPMFromText makes of the text fetched from a filename.
LoadPPM(filename) == [ppm |-> filename]

\* The filenames of the flattener's texture table, as the fetches read them.
MapFilenames(fl, g) ==
    [j \in 1..Len(GetTextureMaps(fl)) |-> MaterialOf(g, GetTextureMaps(fl)[j]).textureMap.filename]

\* render.js:138-147, resetScene likewise: camera.reset(), then the
\* orientation the parser's camera data asks for.
SetUpCamera(cam, cameraData) ==
    IF cameraData.isDir
    THEN OrientLookVec(Reset(cam), cameraData.pos, cameraData.look, cameraData.up)
    ELSE OrientLookAt(Reset(cam), cameraData.pos, cameraData.lookAt, cameraData.up)

\* Lights sent to the shader arrays.
MAX_LIGHTS == 16

\* What renderFrame hands to the shader when the scene is ready.  modelView is
\* getModelViewMatrix(), from which (with the fixed scale matrix) it computes
\* uCamWorldMatrix.
FrameUniforms(r, cam) ==
    LET globalData == r.sceneParser.globalData
        lights == r.sceneParser.lights
        numLights == Len(lights)
    IN [drawn |-> TRUE,
        uCameraPos |-> GetEyePoint(cam),
        modelView |-> cam.worldToCameraMat4,
        uGlobal |-> <<globalData.ka, globalData.kd, globalData.ks, globalData.kt>>,
        uTextures |-> r.textures,
        uSceneBuffer |-> r.sceneTexture,
        uObjectCount |-> r.objectCount,
        uFloatsPerRow |-> r.floatsPerRow,
        uSceneTexWidth |-> r.texWidth,
        uSceneTexHeight |-> r.texHeight,
        uNumLights |-> numLights,
        uLights |-> SubSeq(lights, 1, IF numLights < MAX_LIGHTS THEN numLights ELSE MAX_LIGHTS)]

\* ---------------------------------------------------------------------------
\* Camera calls.  Inputs come from sets on which normalisation is exact.
\* ---------------------------------------------------------------------------
\* Number of camera calls made in one run.
MaxCalls == 3

EyePoints == {<<0, 0, 1>>, <<1, 0, 0>>, Zero3}

LookVecs == {<<0, 0, 0 - 1>>, <<1, 0, 0>>, <<0, 2, 0>>, Zero3}

UpVecs == {<<0, 1, 0>>, <<0, 1, 1>>, <<1, 1, 0>>, Zero3}

FocusPoints == {Zero3, <<0, 0, 1>>}

TranslateVecs == {<<1, 0, 0>>, <<0, 0, 0 - 1>>}

RotateAxes == {<<0, 1, 0>>, <<0, 0, 2>>, Zero3}

RotateDegs == {90, 180}

IsSquare(q) == \E r \in 0..MaxRoot : r * r = q

\* look and up on which vec3.normalize is exact in integers.
ExactLookUp(look, up) ==
    /\ IsSquare(Vec3Dot(look, look))
    /\ IsNullVector(look) \/
       IsSquare(Vec3Dot(Vec3Cross(Vec3Normalize(look), up),
                        Vec3Cross(Vec3Normalize(look), up)))

\* The variables the camera calls leave alone.
notCamera == <<graph, flattener, renderer, loads, frame, console, browser, ray>>

CamOrientLookVec(eye, look, up) ==
    /\ camCall.n < MaxCalls
    /\ ExactLookUp(look, up)
    /\ camera' = OrientLookVec(camera, eye, look, up)
    /\ camCall' = [op |-> "orientLookVec", n |-> camCall.n + 1,
                   returned |-> IF IsNullVector(look) \/ IsNullVector(up)
                                THEN "ignored" ELSE "ok"]
    /\ UNCHANGED notCamera

CamOrientLookAt(eye, focus, up) ==
    /\ camCall.n < MaxCalls
    /\ ExactLookUp(Vec3Sub(focus, eye), up)
    /\ camera' = OrientLookAt(camera, eye, focus, up)
    /\ camCall' = [op |-> "orientLookAt", n |-> camCall.n + 1,
                   returned |-> IF IsNullVector(Vec3Sub(focus, eye)) \/ IsNullVector(up)
                                THEN "ignored" ELSE "ok"]
    /\ UNCHANGED notCamera

CamTranslate(v) ==
    /\ camCall.n < MaxCalls
    /\ camera' = Translate(camera, v)
    /\ camCall' = [op |-> "translate", n |-> camCall.n + 1, returned |-> "ok"]
    /\ UNCHANGED notCamera

CamRotate(point, axis, deg) ==
    /\ camCall.n < MaxCalls
    /\ camera' = Rotate(camera, point, axis, deg)
    /\ camCall' = [op |-> "rotate", n |-> camCall.n + 1,
                   returned |-> IF RotateThrows(axis) THEN "threw" ELSE "ok"]
    /\ UNCHANGED notCamera

CamInit ==
    /\ camera = NewCamera
    /\ camCall = [op |-> "constructor", n |-> 0, returned |-> "ok"]
    /\ graph = <<>>
    /\ flattener = SceneFlattener(0)
    /\ renderer = NewRenderer
    /\ loads = <<>>
    /\ frame = NoFrame
    /\ console = {}
    /\ browser = NewBrowser
    /\ ray = NoRay

CamNext ==
    \/ \E eye \in EyePoints, look \in LookVecs, up \in UpVecs :
          CamOrientLookVec(eye, look, up)
    \/ \E eye \in EyePoints, focus \in FocusPoints, up \in UpVecs :
          CamOrientLookAt(eye, focus, up)
    \/ \E v \in TranslateVecs : CamTranslate(v)
    \/ \E point \in {Zero3, GetEyePoint(camera)}, axis \in RotateAxes, deg \in RotateDegs :
          CamRotate(point, axis, deg)

CamSpec == CamInit /\ [][CamNext]_vars

\* ---------------------------------------------------------------------------
\* Camera claims
\* ---------------------------------------------------------------------------
\* C2: after any sequence of orientLookVec, orientLookAt, translate and rotate
\* calls, worldToCameraMat4 * cameraToWorldMat4 is the identity matrix.
C2_InverseInvariant ==
    Mat4Multiply(camera.worldToCameraMat4, camera.cameraToWorldMat4) = Mat4Identity

IsUnit(v) == Vec3Dot(v, v) = 1

\* C3: after every orientLookVec/orientLookAt call that was not ignored as
\* degenerate, n, u and v are unit vectors and pairwise orthogonal.
C3_OrthonormalBasis ==
    (camCall.op \in {"orientLookVec", "orientLookAt"} /\ camCall.returned = "ok")
    => /\ IsUnit(camera.nVec3) /\ IsUnit(camera.uVec3) /\ IsUnit(camera.vVec3)
       /\ Vec3Dot(camera.nVec3, camera.uVec3) = 0
       /\ Vec3Dot(camera.nVec3, camera.vVec3) = 0
       /\ Vec3Dot(camera.uVec3, camera.vVec3) = 0

\* C4: orientLookVec with a zero look or a zero up vector, and orientLookAt
\* with the focus point at the eye, leave every field of the camera as it was
\* and return normally.
C4_DegenerateOrientIgnored ==
    [][/\ camCall'.op = "orientLookVec" =>
            \A eye \in EyePoints, look \in LookVecs, up \in UpVecs :
              ((look = Zero3 \/ up = Zero3) /\ CamOrientLookVec(eye, look, up))
              => (camera' = camera /\ camCall'.returned # "threw")
       /\ camCall'.op = "orientLookAt" =>
            \A eye \in EyePoints, up \in UpVecs :
              (eye \in FocusPoints /\ CamOrientLookAt(eye, eye, up))
              => (camera' = camera /\ camCall'.returned # "threw")]_vars

\* A degenerate orientation call was made on a camera that had been moved.
C4_Witness ==
    /\ camCall.op \in {"orientLookVec", "orientLookAt"}
    /\ camCall.returned = "ignored"
    /\ camera # NewCamera

\* ---------------------------------------------------------------------------
\* Flattening runs.  Init draws a scene graph of three nodes (1 is the root,
\* children have larger ids, so the graph is acyclic and node 3 can be shared)
\* from the lists below; the calls are flatten() and createSceneDataTexture().
\* ---------------------------------------------------------------------------
\* Longest children list of a node.
MaxChildren == 2

Scale2 == [SceneTransformation EXCEPT !.type = TRANSFORMATION_SCALE, !.scale = <<2, 2, 2>>]

Translate100 ==
    [SceneTransformation EXCEPT !.type = TRANSFORMATION_TRANSLATE, !.translate = <<1, 0, 0>>]

Translate010 ==
    [SceneTransformation EXCEPT !.type = TRANSFORMATION_TRANSLATE, !.translate = <<0, 1, 0>>]

Rotate90Z ==
    [SceneTransformation EXCEPT !.type = TRANSFORMATION_ROTATE, !.rotate = <<0, 0, 2>>,
                                !.angle = 90]

MatrixShear ==
    [SceneTransformation EXCEPT !.type = TRANSFORMATION_MATRIX,
        !.matrix = <<1, 1, 0, 0,  0, 1, 0, 3,  0, 0, 1, 0,  0, 0, 0, 1>>]

TextureMap(filename, u, v) ==
    [SceneFileMap EXCEPT !.isUsed = TRUE, !.filename = filename, !.repeatU = u, !.repeatV = v]

\* Materials whose fields all differ, so that a misplaced field shows.
MaterialA ==
    [cDiffuse |-> <<21, 22, 23>>, cAmbient |-> <<11, 12, 13>>, cReflective |-> <<41, 42, 43>>,
     cSpecular |-> <<31, 32, 33>>, textureMap |-> TextureMap("a.ppm", 7, 8),
     shininess |-> 5, ior |-> 6]

MaterialA2 ==
    [cDiffuse |-> <<24, 25, 26>>, cAmbient |-> <<14, 15, 16>>, cReflective |-> <<44, 45, 46>>,
     cSpecular |-> <<34, 35, 36>>, textureMap |-> TextureMap("a.ppm", 9, 10),
     shininess |-> 51, ior |-> 52]

MaterialB ==
    [cDiffuse |-> <<27, 28, 29>>, cAmbient |-> <<17, 18, 19>>, cReflective |-> <<47, 48, 49>>,
     cSpecular |-> <<37, 38, 39>>, textureMap |-> TextureMap("b.ppm", 53, 54),
     shininess |-> 55, ior |-> 56]

MaterialPlain ==
    [SceneMaterial EXCEPT !.cAmbient = <<61, 62, 63>>, !.cDiffuse = <<64, 65, 66>>,
                          !.cSpecular = <<67, 68, 69>>, !.cReflective = <<70, 71, 72>>,
                          !.shininess = 73, !.ior = 74]

Primitive(type, material) == [type |-> type, material |-> material]

\* Sequences over S of length at most MaxChildren.
ChildLists(S) == UNION {[1..n -> S] : n \in 0..MaxChildren}

RootNodes ==
    [transformations : {<<>>, <<Scale2, Translate100>>, <<Translate100, Scale2>>},
     primitives : {<<>>, <<Primitive(SHAPE_CUBE, MaterialB)>>},
     children : ChildLists({2, 3})]

MiddleNodes ==
    [transformations : {<<Rotate90Z, Translate010>>, <<MatrixShear>>},
     primitives : {<<Primitive(SHAPE_SPHERE, MaterialA), Primitive(SHAPE_CONE, MaterialPlain)>>},
     children : ChildLists({3})]

LeafNodes ==
    [transformations : {<<Translate010>>, <<Scale2>>},
     primitives : {<<Primitive(SHAPE_CYLINDER, MaterialPlain)>>,
                   <<Primitive(SHAPE_CUBE, MaterialA2), Primitive(SHAPE_SPHERE, MaterialB)>>},
     children : {<<>>}]

Graphs == {<<n1, n2, n3>> : n1 \in RootNodes, n2 \in MiddleNodes, n3 \in LeafNodes}

\* A shape tag and a transformation type outside the enumerations.
UnknownShape == SHAPE_MESH + 2
UnknownTransformation == TRANSFORMATION_MATRIX + 4

\* Graphs built with the constructors of SceneDataStructures.js whose fields
\* were then set to a tag outside the enumerations: a sound primitive beside
\* a primitive of unknown shape, and a node moved by a transformation of
\* unknown type.
BrokenGraphs ==
    {<<[transformations |-> <<Translate100>>,
        primitives |-> <<Primitive(SHAPE_CUBE, MaterialPlain),
                         Primitive(UnknownShape, MaterialPlain)>>,
        children |-> <<>>]>>,
     <<[transformations |-> <<[Scale2 EXCEPT !.type = UnknownTransformation]>>,
        primitives |-> <<Primitive(SHAPE_SPHERE, MaterialPlain)>>,
        children |-> <<>>]>>}

FlatInit ==
    /\ camera = NewCamera
    /\ camCall = [op |-> "constructor", n |-> 0, returned |-> "ok"]
    /\ \/ graph \in Graphs \cup BrokenGraphs /\ flattener = SceneFlattener(1)
       \/ graph = <<>> /\ flattener = SceneFlattener(0)
    /\ renderer = NewRenderer
    /\ loads = <<>>
    /\ frame = NoFrame
    /\ console = {}
    /\ browser = NewBrowser
    /\ ray = NoRay

\* sceneFlattener.flatten()
FlattenCall ==
    /\ flattener' = Flatten(flattener, graph).flattener
    /\ graph' = Flatten(flattener, graph).graph
    /\ console' = console \cup FlattenReports(flattener)
    /\ UNCHANGED <<camera, camCall, renderer, loads, frame, browser, ray>>

\* createSceneDataTexture(getFloat32Array(), getObjectCount(), floatsPerObject)
\* as the load handler calls it after flatten() (render.js:119-126).
UploadCall ==
    /\ \/ flattener.flattened
       \/ flattener.rootNode = 0 /\ FlattenReports(flattener) \subseteq console
    /\ renderer' = CreateSceneDataTexture(renderer, GetFloat32Array(flattener),
                                          GetObjectCount(flattener),
                                          flattener.floatsPerObject)
    /\ console' = console \cup GetFloat32ArrayWarns(flattener)
    /\ UNCHANGED <<camera, camCall, graph, flattener, loads, frame, browser, ray>>

FlatNext == FlattenCall \/ UploadCall

FlatSpec == FlatInit /\ [][FlatNext]_vars

\* ---------------------------------------------------------------------------
\* Flattener claims.  The expected records are computed from the graph's
\* paths with a matrix product of their own, not with the flattener's code.
\* ---------------------------------------------------------------------------
\* Row-major product A * B.
MatProduct(A, B) ==
    LET e(r, c) == A[r * 4 + 1] * B[c + 1] + A[r * 4 + 2] * B[c + 5]
                   + A[r * 4 + 3] * B[c + 9] + A[r * 4 + 4] * B[c + 13]
    IN <<e(0, 0), e(0, 1), e(0, 2), e(0, 3),  e(1, 0), e(1, 1), e(1, 2), e(1, 3),
         e(2, 0), e(2, 1), e(2, 2), e(2, 3),  e(3, 0), e(3, 1), e(3, 2), e(3, 3)>>

\* M(t1) * (M(t2) * (... * M(tn))) for a transformation list.
RECURSIVE RightProduct(_)
RightProduct(ts) ==
    IF ts = <<>> THEN IdentityMat
    ELSE MatProduct(BuildTransformMatrix(Head(ts)), RightProduct(Tail(ts)))

\* A path is the sequence of child positions followed from a node; the node
\* it ends at, 0 if the path leaves the graph.
RECURSIVE NodeAt(_, _, _)
NodeAt(g, node, p) ==
    IF p = <<>> THEN node
    ELSE IF Head(p) > Len(g[node].children) THEN 0
    ELSE NodeAt(g, g[node].children[Head(p)], Tail(p))

\* The root-to-node paths of the graph (children have larger ids).
AllPaths(g) ==
    {p \in UNION {[1..n -> 1..MaxChildren] : n \in 0..(Len(g) - 1)} : NodeAt(g, 1, p) # 0}

\* The product of the transformations along a path, root first, each node's
\* own list in declared order.
RECURSIVE PathProduct(_, _, _)
PathProduct(g, node, p) ==
    MatProduct(RightProduct(g[node].transformations),
               IF p = <<>> THEN IdentityMat
               ELSE PathProduct(g, g[node].children[Head(p)], Tail(p)))

Flattened == flattener.flattened

\* C5: a node reached by k paths has each primitive emitted k times, once per
\* path with that path's matrix, and the number of records is the number of
\* root-to-primitive paths.
C5_OncePerPath ==
    Flattened =>
      LET objs == flattener.objectList
          \* every root-to-primitive path: its node, primitive and matrix
          expected == UNION {{[path |-> p, ref |-> <<NodeAt(graph, 1, p), k>>,
                               world |-> PathProduct(graph, 1, p)] :
                                k \in 1..Len(graph[NodeAt(graph, 1, p)].primitives)} :
                             p \in AllPaths(graph)}
      IN /\ Len(objs) = Cardinality(expected)
         /\ \A x \in expected :
              /\ Cardinality({i \in 1..Len(objs) : objs[i].material = x.ref})
                   = Cardinality({y \in expected : y.ref = x.ref})
              /\ Cardinality({i \in 1..Len(objs) :
                                 objs[i].material = x.ref /\ objs[i].worldMatrix = x.world})
                   = Cardinality({y \in expected : y.ref = x.ref /\ y.world = x.world})

\* A primitive-bearing node is reached by three paths or more.
C5_Witness ==
    /\ Flattened
    /\ \E nid \in 1..Len(graph) :
         /\ graph[nid].primitives # <<>>
         /\ Cardinality({p \in AllPaths(graph) : NodeAt(graph, 1, p) = nid}) >= 3

\* C6: the world matrix of a node's primitives (and so the parent matrix of
\* its children) is P * M(t1) * ... * M(tn), P the parent's accumulated matrix.
C6_RightMultiplyInOrder ==
    Flattened =>
      LET objs == flattener.objectList
      IN {<<objs[i].material, objs[i].worldMatrix>> : i \in 1..Len(objs)}
         = UNION {{<<<<NodeAt(graph, 1, p), k>>, PathProduct(graph, 1, p)>> :
                       k \in 1..Len(graph[NodeAt(graph, 1, p)].primitives)} :
                    p \in AllPaths(graph)}

\* A primitive two levels down, below a root with two transformations.
C6_Witness ==
    /\ Flattened
    /\ Len(graph[1].transformations) = 2
    /\ \E p \in AllPaths(graph) : Len(p) = 2 /\ graph[NodeAt(graph, 1, p)].primitives # <<>>

ScaleThenTranslate == <<2, 0, 0, 2,  0, 2, 0, 0,  0, 0, 2, 0,  0, 0, 0, 1>>

TranslateThenScale == <<2, 0, 0, 1,  0, 2, 0, 0,  0, 0, 2, 0,  0, 0, 0, 1>>

RootHas(ts) == Flattened /\ graph[1].transformations = ts /\ graph[1].primitives # <<>>

\* C7 as stated: the root with [Scale(2,2,2), Translate(1,0,0)] gets the matrix
\* Translate * Scale, diagonal 2 with translation column (1,0,0).
C7_AsStated ==
    RootHas(<<Scale2, Translate100>>)
    => flattener.objectList[1].worldMatrix = TranslateThenScale

\* C7 amended: [Scale(2,2,2), Translate(1,0,0)] under the identity parent gives
\* Scale * Translate, diagonal 2 with translation column (2,0,0); the reversed
\* list gives diagonal 2 with translation column (1,0,0), a different matrix.
C7_ScaleTimesTranslate ==
    /\ RootHas(<<Scale2, Translate100>>)
       => flattener.objectList[1].worldMatrix = ScaleThenTranslate
    /\ RootHas(<<Translate100, Scale2>>)
       => flattener.objectList[1].worldMatrix = TranslateThenScale
    /\ ScaleThenTranslate # TranslateThenScale

C7_Witness == RootHas(<<Scale2, Translate100>>)

\* The emitted objects whose texture map is used, and their map's fields.
MapOf(i) == MaterialOf(graph, flattener.objectList[i].material).textureMap

UsedObjects == {i \in 1..Len(flattener.objectList) : MapOf(i).isUsed}

TableFile(a) == MaterialOf(graph, flattener.textureMaps[a]).textureMap.filename

FirstUse(f) == CHOOSE i \in UsedObjects :
                  MapOf(i).filename = f /\ \A j \in UsedObjects : MapOf(j).filename = f => i <= j

\* C8: equal textureIndex exactly for equal filenames; the table lists each
\* filename once, in order of first appearance; textureIndex is the filename's
\* position in the table.
C8_TextureIndexing ==
    Flattened =>
      LET n == Len(flattener.textureMaps)
      IN /\ \A i, j \in UsedObjects :
              (MapOf(i).textureIndex = MapOf(j).textureIndex)
                <=> (MapOf(i).filename = MapOf(j).filename)
         /\ \A a, b \in 1..n : a # b => TableFile(a) # TableFile(b)
         /\ {TableFile(a) : a \in 1..n} = {MapOf(i).filename : i \in UsedObjects}
         /\ \A a, b \in 1..n : a < b => FirstUse(TableFile(a)) < FirstUse(TableFile(b))
         /\ \A i \in UsedObjects :
              /\ MapOf(i).textureIndex + 1 \in 1..n
              /\ TableFile(MapOf(i).textureIndex + 1) = MapOf(i).filename

\* Two distinct map objects with one filename, a second filename between them.
C8_Witness ==
    /\ Flattened
    /\ \E i, j, h \in UsedObjects :
         /\ i < h /\ h < j
         /\ flattener.objectList[i].material # flattener.objectList[j].material
         /\ MapOf(i).filename = MapOf(j).filename
         /\ MapOf(h).filename # MapOf(i).filename

\* The scene buffer holds the flattener's current objects.
Uploaded ==
    /\ Flattened
    /\ ~renderer.sceneTexture.isNull
    /\ renderer.objectCount = GetObjectCount(flattener)

C10_PaddedRows ==
    (~renderer.sceneTexture.isNull /\ renderer.objectCount = GetObjectCount(flattener)) =>
      LET N == GetObjectCount(flattener)
          flat == GetFloat32Array(flattener).floats
          buf == renderer.sceneTexture.floats
      IN /\ renderer.floatsPerRow = 36
         /\ renderer.texWidth = 9
         /\ renderer.texHeight = N
         /\ Len(buf) = 36 * N
         /\ \A i \in 0..(N - 1) :
              /\ \A k \in 0..34 : buf[i * 36 + k + 1] = flat[i * 35 + k + 1]
              /\ \A k \in 35..35 : buf[i * 36 + k + 1] = 0

\* A buffer of several rows has been built.
C10_Witness ==
    /\ ~renderer.sceneTexture.isNull
    /\ renderer.texHeight >= 3
    /\ Len(GetFloat32Array(flattener).floats) = 35 * renderer.texHeight

\* ---------------------------------------------------------------------------
\* Scene loads and frames.  The user picks scene files one after another; the
\* render loop draws frames in between.  reader.onload runs to its first real
\* suspension, the texture fetches of render.js:131-135 (the awaits before it,
\* and Promise.all of an empty list, resume in the same task, before any
\* frame), and runs from there to its end when the fetches are done.
\* ---------------------------------------------------------------------------
\* Scene files loaded in one run.
MaxLoads == 3

SceneLightAt(pos) == [SceneLightData EXCEPT !.pos = pos]

\* One untextured cube.
PlainObjects ==
    <<[transformations |-> <<Translate100>>,
       primitives |-> <<Primitive(SHAPE_CUBE, MaterialPlain)>>,
       children |-> <<>>]>>

\* Two textured primitives under two nodes.
TexturedObjects ==
    <<[transformations |-> <<Scale2>>,
       primitives |-> <<Primitive(SHAPE_SPHERE, MaterialA)>>,
       children |-> <<2>>],
      [transformations |-> <<Translate010>>,
       primitives |-> <<Primitive(SHAPE_CONE, MaterialB)>>,
       children |-> <<>>]>>

\* One light more than the uniform arrays of the shader hold.
ManyLights == [i \in 1..(MAX_LIGHTS + 1) |-> SceneLightAt(<<i, 0, 0>>)]

\* The files the user can pick: scenes that differ in every part a frame
\* reads (one of them without an object named "root", one with more lights
\* than the shader's arrays hold), and a file that is not a scene file.
SceneFiles ==
    {[name |-> "plain.xml", isSceneFile |-> TRUE,
      globalData |-> [ka |-> 1, kd |-> 2, ks |-> 3, kt |-> 4],
      cameraData |-> [SceneCameraData EXCEPT !.pos = <<0, 0, 3>>, !.look = <<0, 0, 0 - 1>>,
                                             !.isDir = TRUE],
      lights |-> <<SceneLightAt(<<1, 1, 1>>)>>,
      objects |-> PlainObjects],
     [name |-> "textured.xml", isSceneFile |-> TRUE,
      globalData |-> [ka |-> 5, kd |-> 6, ks |-> 7, kt |-> 8],
      cameraData |-> [SceneCameraData EXCEPT !.pos = <<2, 0, 0>>, !.lookAt = Zero3,
                                             !.isDir = FALSE],
      lights |-> <<SceneLightAt(<<2, 2, 2>>), SceneLightAt(<<0, 3, 0>>)>>,
      objects |-> TexturedObjects],
     [name |-> "noroot.xml", isSceneFile |-> TRUE,
      globalData |-> [ka |-> 9, kd |-> 10, ks |-> 11, kt |-> 12],
      cameraData |-> [SceneCameraData EXCEPT !.pos = <<0, 0, 5>>, !.look = <<0, 0, 0 - 1>>,
                                             !.isDir = TRUE],
      lights |-> <<SceneLightAt(<<4, 4, 4>>)>>,
      objects |-> <<>>],
     [name |-> "lights.xml", isSceneFile |-> TRUE,
      globalData |-> [ka |-> 13, kd |-> 14, ks |-> 15, kt |-> 16],
      cameraData |-> [SceneCameraData EXCEPT !.pos = <<0, 2, 0>>, !.lookAt = Zero3,
                                             !.up = <<1, 0, 0>>, !.isDir = FALSE],
      lights |-> ManyLights,
      objects |-> PlainObjects],
     [name |-> "notes.xml", isSceneFile |-> FALSE,
      globalData |-> SceneGlobalData, cameraData |-> SceneCameraData,
      lights |-> <<>>, objects |-> <<>>]}

\* render.js:131-154 once the fetches of a load have resolved: the textures,
\* the camera set from the parser the renderer holds now, sceneReady.
FinishLoad(r, cam, files) ==
    [renderer |-> [r EXCEPT !.textures = [j \in 1..Len(files) |-> LoadPPM(files[j])],
                            !.sceneReady = TRUE],
     camera |-> SetUpCamera(cam, r.sceneParser.cameraData)]

\* reader.onload for a picked file, up to the texture fetches (to the end if
\* there is nothing to fetch, to the catch block if parsing fails).  parsed,
\* fl, r2 and maps are the handler's locals and the fields it has set so far.
LoadStart(file) ==
    /\ Len(loads) < MaxLoads
    /\ \E parsed \in {ParseFromString(file)} :
         IF ~parsed.parseOk
         THEN /\ renderer' = [renderer EXCEPT !.sceneParser = parsed.parser]
              /\ loads' = Append(loads, [file |-> file.name, at |-> "failed", maps |-> <<>>])
              /\ console' = console \cup ParseReports(file) \cup CatchReports
              /\ UNCHANGED <<camera, graph, flattener>>
         ELSE \E fl \in {Flatten(SceneFlattener(parsed.parser.rootNode),
                                 parsed.parser.objects)} :
              \E r2 \in {CreateSceneDataTexture(
                             [renderer EXCEPT !.sceneParser = parsed.parser],
                             GetFloat32Array(fl.flattener), GetObjectCount(fl.flattener),
                             fl.flattener.floatsPerObject)} :
              \E maps \in {MapFilenames(fl.flattener, fl.graph)} :
                /\ flattener' = fl.flattener
                /\ graph' = fl.graph
                /\ console' = console
                               \cup FlattenReports(SceneFlattener(parsed.parser.rootNode))
                               \cup GetFloat32ArrayWarns(fl.flattener)
                /\ IF maps = <<>>
                   THEN /\ renderer' = FinishLoad(r2, camera, maps).renderer
                        /\ camera' = FinishLoad(r2, camera, maps).camera
                        /\ loads' = Append(loads, [file |-> file.name, at |-> "done",
                                                   maps |-> maps])
                   ELSE /\ renderer' = r2
                        /\ camera' = camera
                        /\ loads' = Append(loads, [file |-> file.name, at |-> "fetching",
                                                   maps |-> maps])
    /\ UNCHANGED <<camCall, frame, browser, ray>>

\* The texture fetches of load i have resolved: the rest of reader.onload.
LoadFinish(i) ==
    /\ loads[i].at = "fetching"
    /\ renderer' = FinishLoad(renderer, camera, loads[i].maps).renderer
    /\ camera' = FinishLoad(renderer, camera, loads[i].maps).camera
    /\ loads' = [loads EXCEPT ![i].at = "done"]
    /\ UNCHANGED <<camCall, graph, flattener, frame, console, browser, ray>>

\* A fetch of load i was rejected, or loadPPMFromText threw: the catch block.
LoadFails(i) ==
    /\ loads[i].at = "fetching"
    /\ loads' = [loads EXCEPT ![i].at = "failed"]
    /\ console' = console \cup CatchReports
    /\ UNCHANGED <<camera, camCall, graph, flattener, renderer, frame, browser, ray>>

\* One turn of the render loop: renderFrame().  The canvas is square, so
\* setScreenSize leaves screenWidthRatio at 1.
RenderFrame ==
    /\ frame' = IF ~renderer.sceneReady THEN NoFrame ELSE FrameUniforms(renderer, camera)
    /\ UNCHANGED <<camera, camCall, graph, flattener, renderer, loads, console, browser, ray>>

RenderInit ==
    /\ camera = NewCamera
    /\ camCall = [op |-> "constructor", n |-> 0, returned |-> "ok"]
    /\ graph = <<>>
    /\ flattener = SceneFlattener(0)
    /\ renderer = NewRenderer
    /\ loads = <<>>
    /\ frame = NoFrame
    /\ console = {}
    /\ browser = NewBrowser
    /\ ray = NoRay

RenderNext ==
    \/ \E file \in SceneFiles : LoadStart(file)
    \/ \E i \in 1..Len(loads) : LoadFinish(i)
    \/ \E i \in 1..Len(loads) : LoadFails(i)
    \/ RenderFrame

RenderSpec == RenderInit /\ [][RenderNext]_vars

\* The frame a completed load of a file is to show: every part from that file.
SceneFrame(file) ==
    LET parsed == ParseFromString(file)
        fl == Flatten(SceneFlattener(parsed.parser.rootNode), parsed.parser.objects)
        r == CreateSceneDataTexture([NewRenderer EXCEPT !.sceneParser = parsed.parser],
                                    GetFloat32Array(fl.flattener),
                                    GetObjectCount(fl.flattener),
                                    fl.flattener.floatsPerObject)
        done == FinishLoad(r, NewCamera, MapFilenames(fl.flattener, fl.graph))
    IN FrameUniforms(done.renderer, done.camera)

\* C1: every frame drawn shows the scene buffer and object count, the
\* textures, the lights and global coefficients and the camera viewpoint of
\* one completed scene load, whatever load is in progress.
C1_FrameFromOneLoad ==
    frame.drawn =>
      \E i \in 1..Len(loads) :
        /\ loads[i].at = "done"
        /\ \E file \in SceneFiles : file.name = loads[i].file /\ frame = SceneFrame(file)

\* ---------------------------------------------------------------------------
\* Error handling of the flattener.
\* ---------------------------------------------------------------------------
\* C11: flatten() on a flattener whose root node is null reports the
\* condition, returns without throwing, and leaves an empty buffer:
\* getObjectCount() is 0 and getFloat32Array() is an array of length zero.
C11_NullRootFlatten ==
    [][(FlattenCall /\ flattener.rootNode = 0) =>
          /\ FlattenReports(flattener) # {}
          /\ FlattenReports(flattener) \subseteq console'
          /\ GetObjectCount(flattener') = 0
          /\ GetFloat32Array(flattener') = Float32Array(<<>>)]_vars

\* A structural error of a scene graph: a primitive whose shape tag, or a
\* transformation whose type, is not a value of its enumeration.
StructuralError(g) ==
    \E n \in 1..Len(g) :
        \/ \E i \in 1..Len(g[n].primitives) : g[n].primitives[i].type \notin PrimitiveType
        \/ \E i \in 1..Len(g[n].transformations) :
              g[n].transformations[i].type \notin TransformationType

RootedFiles == {f \in SceneFiles : f.isSceneFile /\ f.objects # <<>>}

RootlessFiles == {f \in SceneFiles : f.isSceneFile /\ f.objects = <<>>}

\* C13: when the first scene was loaded to its end and every load after it
\* was of a file without a root node, every frame drawn shows the first
\* scene: its scene texture, object count, textures, lights, global
\* coefficients and camera.
C13_FailedLoadKeepsScene ==
    [][\A f \in RootedFiles :
          (/\ RenderFrame
           /\ Len(loads) >= 2
           /\ loads[1].file = f.name /\ loads[1].at = "done"
           /\ \A j \in 2..Len(loads) : \E e \in RootlessFiles : loads[j].file = e.name)
          => frame' = SceneFrame(f)]_vars

\* ---------------------------------------------------------------------------
\* Start-up and the render loop.  browser.inits holds, for every run of
\* init(), where it stands: "vert" and "frag" are the two awaits of
\* setupShaders, "noGL", "failed" and "done" its three ends.
\* browser.callbacks counts the callbacks queued with requestAnimationFrame
\* for the next display refresh, browser.rendered the runs of renderFrame in
\* each refresh so far.
\* ---------------------------------------------------------------------------
\* Display refreshes in one run.
MaxRefresh == 3

\* init() from its start to its first await (render.js:41-44, 65-67).
InitCalled(b) ==
    [b EXCEPT !.inits = Append(@, IF b.webgl2 THEN "vert" ELSE "noGL")]

\* The load handler of the window: the constructor, which calls init()
\* (render.js:38), then renderer.init() once more (part_001:5-7).  The script
\* is a module, so the assignment to renderer throws before the second call
\* when the page declares no such global.
WindowLoad ==
    /\ ~browser.loaded
    /\ browser' = IF browser.declared
                  THEN InitCalled(InitCalled([browser EXCEPT !.loaded = TRUE]))
                  ELSE InitCalled([browser EXCEPT !.loaded = TRUE])
    /\ camera' = NewCamera
    /\ renderer' = NewRenderer
    /\ UNCHANGED <<camCall, graph, flattener, loads, frame, console, ray>>

\* The vertex shader of run i of init() has arrived (render.js:67-68).
VertFetched(i) ==
    /\ browser.inits[i] = "vert"
    /\ browser' = [browser EXCEPT !.inits[i] = "frag"]
    /\ UNCHANGED <<camera, camCall, graph, flattener, renderer, loads, frame, console, ray>>

\* The fragment shader of run i has arrived: the rest of init(), that is
\* setupEventHandlers and startRenderLoop (render.js:68-69, 50-52, 86-94,
\* 278-284).
FragFetched(i) ==
    /\ browser.inits[i] = "frag"
    /\ browser' = [browser EXCEPT !.inits[i] = "done", !.listeners = @ + 1,
                                  !.callbacks = @ + 1]
    /\ UNCHANGED <<camera, camCall, graph, flattener, renderer, loads, frame, console, ray>>

\* A fetch of run i was rejected, or the program did not build: the catch
\* block of init() (render.js:45-49).
ShadersFail(i) ==
    /\ browser.inits[i] \in {"vert", "frag"}
    /\ browser' = [browser EXCEPT !.inits[i] = "failed"]
    /\ console' = console \cup {"Shader initialization failed:"}
    /\ UNCHANGED <<camera, camCall, graph, flattener, renderer, loads, frame, ray>>

\* One display refresh: the browser runs every queued callback, one after
\* the other; each runs renderFrame to its end and queues itself again
\* (render.js:279-282).
DisplayRefresh ==
    /\ browser.loaded
    /\ Len(browser.rendered) < MaxRefresh
    /\ browser' = [browser EXCEPT !.rendered = Append(@, browser.callbacks)]
    /\ frame' = IF browser.callbacks = 0 THEN frame
                ELSE IF ~renderer.sceneReady THEN NoFrame
                ELSE FrameUniforms(renderer, camera)
    /\ UNCHANGED <<camera, camCall, graph, flattener, renderer, loads, console, ray>>

StartInit ==
    /\ camera = NewCamera
    /\ camCall = [op |-> "constructor", n |-> 0, returned |-> "ok"]
    /\ graph = <<>>
    /\ flattener = SceneFlattener(0)
    /\ renderer = NewRenderer
    /\ loads = <<>>
    /\ frame = NoFrame
    /\ console = {}
    /\ browser \in {[NewBrowser EXCEPT !.webgl2 = b, !.declared = g] : b, g \in BOOLEAN}
    /\ ray = NoRay

StartNext ==
    \/ WindowLoad
    \/ \E i \in 1..Len(browser.inits) : VertFetched(i)
    \/ \E i \in 1..Len(browser.inits) : FragFetched(i)
    \/ \E i \in 1..Len(browser.inits) : ShadersFail(i)
    \/ DisplayRefresh

StartSpec == StartInit /\ [][StartNext]_vars

\* Start-up is over and went well: every run of init() reached its end and
\* started its render loop.
StartedUp ==
    /\ browser.loaded
    /\ \A i \in 1..Len(browser.inits) : browser.inits[i] = "done"

\* C14: once start-up is over, one render loop is active: a display refresh
\* runs renderFrame exactly once, and one callback is queued for the next.
C14_OneRenderLoop ==
    [][(DisplayRefresh /\ StartedUp) =>
          /\ browser'.rendered[Len(browser'.rendered)] = 1
          /\ browser'.callbacks = 1]_vars

\* ---------------------------------------------------------------------------
\* The camera under the rotation sliders (SliderSpec) and under camera calls
\* and scene loads (ViewSpec).  The sliders call setRotUVW; rotateU, rotateV
\* and rotateW are public too.  Loads overlap as in RenderSpec.
\* ---------------------------------------------------------------------------
\* Scene loads in one run of the slider specification.
MaxViewLoads == 2

SliderDegs == {0, 90, 180}

ViewLooks == {<<0, 0, 0 - 1>>, <<1, 0, 0>>}

ViewUps == {<<0, 1, 0>>, <<1, 0, 0>>}

ViewFiles == {f \in SceneFiles : f.name \in {"plain.xml", "textured.xml"}}

CamRotateU(angle) ==
    /\ camCall.n < MaxCalls
    /\ camera' = RotateU(camera, angle)
    /\ camCall' = [op |-> "rotateU", n |-> camCall.n + 1, angle |-> angle,
                   returned |-> IF RotateThrows(UAxis(camera)) THEN "threw" ELSE "ok"]
    /\ UNCHANGED notCamera

CamRotateV(angle) ==
    /\ camCall.n < MaxCalls
    /\ camera' = RotateV(camera, angle)
    /\ camCall' = [op |-> "rotateV", n |-> camCall.n + 1, angle |-> angle,
                   returned |-> IF RotateThrows(VAxis(camera)) THEN "threw" ELSE "ok"]
    /\ UNCHANGED notCamera

CamRotateW(angle) ==
    /\ camCall.n < MaxCalls
    /\ camera' = RotateW(camera, angle)
    /\ camCall' = [op |-> "rotateW", n |-> camCall.n + 1, angle |-> angle,
                   returned |-> IF RotateThrows(WAxis(camera)) THEN "threw" ELSE "ok"]
    /\ UNCHANGED notCamera

CamSetRotUVW(u, v, w) ==
    /\ camCall.n < MaxCalls
    /\ camera' = SetRotUVW(camera, u, v, w)
    /\ camCall' = [op |-> "setRotUVW", n |-> camCall.n + 1, uvw |-> <<u, v, w>>,
                   returned |-> IF SetRotUVWThrows(camera, u, v, w) THEN "threw" ELSE "ok"]
    /\ UNCHANGED notCamera

\* Camera calls in one run of the slider specifications.
MaxTurns == 2

SliderNext ==
    /\ camCall.n < MaxTurns
    /\ \/ \E u \in SliderDegs, v \in SliderDegs, w \in SliderDegs : CamSetRotUVW(u, v, w)
       \/ \E angle \in {0, 90} : CamRotateU(angle)
       \/ \E angle \in {0, 90} : CamRotateV(angle)
       \/ \E angle \in {0, 90} : CamRotateW(angle)
       \/ \E look \in ViewLooks, up \in ViewUps : CamOrientLookVec(<<1, 0, 0>>, look, up)
       \/ \E v \in TranslateVecs : CamTranslate(v)

SliderSpec == CamInit /\ [][SliderNext]_vars

ViewLoadStart(file) ==
    /\ Len(loads) < MaxViewLoads
    /\ LoadStart(file)

\* Camera calls between the loads: one of each kind.
ViewCamCall ==
    /\ camCall.n < MaxTurns
    /\ \/ CamSetRotUVW(90, 0, 180)
       \/ CamOrientLookVec(<<1, 0, 0>>, <<0, 1, 0>>, <<0, 0, 1>>)
       \/ CamTranslate(<<1, 0, 0>>)
       \/ CamRotate(Zero3, <<0, 1, 0>>, 90)

ViewNext ==
    \/ ViewCamCall
    \/ \E file \in ViewFiles : ViewLoadStart(file)
    \/ \E i \in 1..Len(loads) : LoadFinish(i)

ViewSpec == RenderInit /\ [][ViewNext]_vars

\* The file of a name, and the direction its camera data declares: the look
\* vector, or focus minus position.
FileNamed(name) == CHOOSE f \in SceneFiles : f.name = name

DeclaredLook(cameraData) ==
    IF cameraData.isDir THEN cameraData.look
    ELSE Vec3Sub(cameraData.lookAt, cameraData.pos)

\* C15: at the end of every successful scene load, whatever camera calls
\* came before it, the eye point is the position the loaded file declares,
\* the look vector is the declared direction normalized, and rotU, rotV and
\* rotW are 0.
C15_LoadResetsCamera ==
    [][\A i \in 1..Len(loads') :
          (loads'[i].at = "done" /\ (i > Len(loads) \/ loads[i].at # "done")) =>
             /\ GetEyePoint(camera') = FileNamed(loads'[i].file).cameraData.pos
             /\ GetLookVector(camera') =
                   Vec3Normalize(DeclaredLook(FileNamed(loads'[i].file).cameraData))
             /\ camera'.rotU = 0 /\ camera'.rotV = 0 /\ camera'.rotW = 0]_vars

\* ---------------------------------------------------------------------------
\* Slider claims
\* ---------------------------------------------------------------------------
\* The call just made was rotateU, rotateV or rotateW with angle 0, or
\* setRotUVW with the angles the camera had stored.
NullTurn ==
    /\ camCall'.n = camCall.n + 1
    /\ \/ camCall'.op \in {"rotateU", "rotateV", "rotateW"} /\ camCall'.angle = 0
       \/ camCall'.op = "setRotUVW"
            /\ camCall'.uvw = <<camera.rotU, camera.rotV, camera.rotW>>

\* C16: rotateU(0), rotateV(0) and rotateW(0), and setRotUVW with the stored
\* (rotU, rotV, rotW), leave worldToCameraMat4 and cameraToWorldMat4 as they
\* were, from every camera state the calls can reach.
C16_NullTurnKeepsMatrices ==
    [][NullTurn => /\ camera'.worldToCameraMat4 = camera.worldToCameraMat4
                   /\ camera'.cameraToWorldMat4 = camera.cameraToWorldMat4]_vars

\* A rotation by 0 that returned, made on a camera that earlier calls have
\* moved and turned away from the camera of the constructor.
C16_Witness ==
    /\ camCall.op \in {"rotateU", "rotateV", "rotateW"}
    /\ camCall.angle = 0
    /\ camCall.returned = "ok"
    /\ GetEyePoint(camera) # GetEyePoint(NewCamera)
    /\ GetLookVector(camera) # GetLookVector(NewCamera)

\* The camera matrices after the three rotations of setRotUVW made in the
\* order of a permutation of <<"U", "V", "W">>, each about the eye point and
\* the axis of the camera it finds.
Turn(cam, which, du, dv, dw) ==
    CASE which = "U" -> RotateU(cam, du)
      [] which = "V" -> RotateV(cam, dv)
      [] which = "W" -> RotateW(cam, dw)

TurnsInOrder(cam, order, du, dv, dw) ==
    Turn(Turn(Turn(cam, order[1], du, dv, dw), order[2], du, dv, dw), order[3], du, dv, dw)

OtherOrders ==
    {<<"U", "W", "V">>, <<"V", "U", "W">>, <<"V", "W", "U">>, <<"W", "U", "V">>,
     <<"W", "V", "U">>}

QuarterTurn(deg) == deg % 180 = 90

\* C20: setRotUVW(u, v, w) makes rotateU(u - rotU), then rotateV(v - rotV),
\* then rotateW(w - rotW), each about the current eye point and the current
\* camera axes, and then the stored (rotU, rotV, rotW) are (u, v, w); made in
\* another order, three quarter-turn deltas give another cameraToWorldMat4.
C20_SetRotUVWInOrder ==
    [][(camCall'.n = camCall.n + 1 /\ camCall'.op = "setRotUVW") =>
         \E du \in {camCall'.uvw[1] - camera.rotU} :
         \E dv \in {camCall'.uvw[2] - camera.rotV} :
         \E dw \in {camCall'.uvw[3] - camera.rotW} :
            /\ camera'.cameraToWorldMat4 =
                  TurnsInOrder(camera, <<"U", "V", "W">>, du, dv, dw).cameraToWorldMat4
            /\ camera'.worldToCameraMat4 =
                  TurnsInOrder(camera, <<"U", "V", "W">>, du, dv, dw).worldToCameraMat4
            /\ <<camera'.rotU, camera'.rotV, camera'.rotW>> = camCall'.uvw
            /\ (QuarterTurn(du) /\ QuarterTurn(dv) /\ QuarterTurn(dw)) =>
                  \A order \in OtherOrders :
                     TurnsInOrder(camera, order, du, dv, dw).cameraToWorldMat4
                        # camera'.cameraToWorldMat4]_vars

\* ---------------------------------------------------------------------------
\* Lights
\* ---------------------------------------------------------------------------
\* The indices at which the light loop of traceRay reads uLightColor and
\* uLightPos for a pixel whose ray hits an object: i from 0 while i < m, with
\* m = uNumLights (test.frag:797, 821-824).
LightLoop(uNumLights) == 0..(uNumLights - 1)

\* C17: the shader consumes at most 16 lights: the light count a frame gives
\* it is at most 16, its light loop makes at most 16 turns, and it reads no
\* light-array element of index 16 or more.
C17_AtMostSixteenLights ==
    frame.drawn =>
        /\ frame.uNumLights <= MAX_LIGHTS
        /\ Cardinality(LightLoop(frame.uNumLights)) <= MAX_LIGHTS
        /\ \A i \in LightLoop(frame.uNumLights) : i < MAX_LIGHTS

\* ---------------------------------------------------------------------------
\* The shader's traceRay (test.frag:755-855).  Lengths are counted in halves
\* of a unit, so that the unit sphere has radius 1 and HALF2 is 1; ray
\* directions are unit vectors along an axis, so a hit parameter in these
\* units is twice the shader's t, with the same sign and the same order.
\* A float is a record: INF, or a finite value.
\* ---------------------------------------------------------------------------
\* Objects in the scene buffer of one traced ray.
MaxObjects == 3

INF == [inf |-> TRUE, v |-> 0]

Float(x) == [inf |-> FALSE, v |-> x]

\* a < b and a == b on floats.
FloatLess(a, b) == ~a.inf /\ (b.inf \/ a.v < b.v)

\* The value the intersect functions return for no hit, -1.0.
NoHit == Float(0 - 1)

\* intersectSphere(ro, rd) (test.frag:412-439), on inputs whose discriminant
\* is a square.
IntersectSphere(ro, rd) ==
    LET A == Vec3Dot(rd, rd)
        B == 2 * Vec3Dot(rd, ro)
        C == Vec3Dot(ro, ro) - 1
        discriminant == B * B - 4 * A * C
        sqrtD == ISqrt(discriminant)
        t1 == (0 - B + sqrtD) \div (2 * A)
        t2 == (0 - B - sqrtD) \div (2 * A)
    IN IF discriminant < 0 THEN NoHit
       ELSE IF t1 < 0 /\ t2 < 0 THEN NoHit
       ELSE IF t1 < 0 THEN Float(t2)
       ELSE IF t2 < 0 THEN Float(t1)
       ELSE Float(IF t1 < t2 THEN t1 ELSE t2)

\* The shader's HALF = 0.5, in the half units its lengths are counted in here.
HALF == 1

Abs(x) == IF x < 0 THEN 0 - x ELSE x

\* n / d for d # 0, on inputs whose quotient is whole.
Quotient(n, d) == IF d < 0 THEN (0 - n) \div (0 - d) ELSE n \div d

\* One face of intersectCube (test.frag:457-473): the parameter at which
\* the ray meets the plane of the face at `side` on `axis`, kept if the point
\* lies within the face, -1.0 otherwise.  When rd is zero on the axis the
\* quotient is infinite (ro is never on the plane in the rays traced) and the
\* test within the face fails.
CubeFace(ro, rd, axis, side) ==
    LET b == (axis % 3) + 1
        c == ((axis + 1) % 3) + 1
        t == Quotient(side - ro[axis], rd[axis])
    IN IF rd[axis] = 0 THEN 0 - 1
       ELSE IF Abs(ro[b] + t * rd[b]) <= HALF /\ Abs(ro[c] + t * rd[c]) <= HALF THEN t
       ELSE 0 - 1

\* intersectCube(ro, rd) (test.frag:453-486)
IntersectCube(ro, rd) ==
    LET faces == {CubeFace(ro, rd, axis, side) : axis \in 1..3, side \in {HALF, 0 - HALF}}
        positive == {t \in faces : t > 0}
    IN IF positive = {} THEN NoHit
       ELSE Float(CHOOSE t \in positive : \A u \in positive : t <= u)

\* normalize(v) of the shader as a set of outcomes: a vector, or for the zero
\* vector, whose normalisation is undefined, what a build can give: NaN in
\* every component, or the zero vector.
NormalizeOutcomes(v) ==
    IF v = Zero3 THEN {[nan |-> TRUE, v |-> Zero3], [nan |-> FALSE, v |-> Zero3]}
    ELSE {[nan |-> FALSE, v |-> Vec3Normalize(v)]}

\* normalCube(hitPos) (test.frag:488-500); EPSILON is below the grid the
\* points lie on.
NormalCube(hitPos) ==
    LET Component(x) == IF x = 0 - HALF THEN 0 - 1 ELSE IF x = HALF THEN 1 ELSE 0
    IN NormalizeOutcomes(<<Component(hitPos[1]), Component(hitPos[2]), Component(hitPos[3])>>)

\* normalSphere(hitPos) (test.frag:445-448)
NormalSphere(hitPos) == NormalizeOutcomes(hitPos)

\* getNormal(hitPos, idx) (test.frag:729-751) for cubes, spheres and tags
\* without a case.
GetNormal(hitPos, object) ==
    CASE object.type = SHAPE_CUBE -> NormalCube(hitPos)
      [] object.type = SHAPE_SPHERE -> NormalSphere(hitPos)
      [] object.type \notin {SHAPE_CUBE, SHAPE_SPHERE, SHAPE_CYLINDER, SHAPE_CONE} ->
            {[nan |-> FALSE, v |-> Zero3]}

\* intersect(ro, rd, idx) (test.frag:698-727) for a cube, for a sphere and
\* for a shape tag the switch has no case for; cylinders and cones are not
\* traced.
Intersect(ro, rd, object) ==
    CASE object.type = SHAPE_CUBE ->
            IF IntersectCube(ro, rd) # NoHit THEN IntersectCube(ro, rd) ELSE INF
      [] object.type = SHAPE_SPHERE ->
            IF IntersectSphere(ro, rd) # NoHit THEN IntersectSphere(ro, rd) ELSE INF
      [] object.type \notin {SHAPE_CUBE, SHAPE_SPHERE, SHAPE_CYLINDER, SHAPE_CONE} -> INF

\* inverse(fetchWorldMatrix(i)) applied to the ray origin, for a world matrix
\* that is a translation to object.center (test.frag:765-770); the direction
\* is unchanged by it.
WorldToObject(rayOrigin, object) == Vec3Sub(rayOrigin, object.center)

\* The object loop of traceRay from index i on (test.frag:764-781); closest
\* is the pair of its locals t and objectID, indices count from 0.
RECURSIVE ObjectLoop(_, _, _, _, _)
ObjectLoop(rayOrigin, rayDir, objects, i, closest) ==
    IF i >= Len(objects) THEN closest
    ELSE LET tempT == Intersect(WorldToObject(rayOrigin, objects[i + 1]), rayDir,
                                objects[i + 1])
         IN ObjectLoop(rayOrigin, rayDir, objects, i + 1,
                       IF tempT # NoHit /\ FloatLess(tempT, closest.t)
                       THEN [t |-> tempT, objectID |-> i]
                       ELSE closest)

\* traceRay(rayOrigin, rayDir): it returns vec3(0.0) when the loop found
\* nothing, otherwise the colour it shades the object found with, for which
\* it evaluates the normal, the material and the lights (test.frag:784-854).
TraceRay(rayOrigin, rayDir, objects, uNumLights) ==
    LET closest == ObjectLoop(rayOrigin, rayDir, objects, 0, [t |-> INF, objectID |-> 0 - 1])
    IN IF closest.t = INF \/ closest.objectID = 0 - 1
       THEN [returns |-> "vec3(0.0)", objectID |-> 0 - 1, normalOf |-> {}, materialOf |-> {},
             lightsRead |-> {}]
       ELSE [returns |-> "color", objectID |-> closest.objectID, t |-> closest.t.v,
             normalOf |-> {closest.objectID}, materialOf |-> {closest.objectID},
             lightsRead |-> LightLoop(uNumLights)]

\* hitPosObj of traceRay: rayOrigin + rayDir * t (test.frag:780)
HitPosObj(rayOrigin, rayDir, t) ==
    <<rayOrigin[1] + rayDir[1] * t, rayOrigin[2] + rayDir[2] * t, rayOrigin[3] + rayDir[3] * t>>

\* nWorld of traceRay (test.frag:800-804): getNormal at hitPosObj, times the
\* transpose of the inverse world matrix, which for a translation leaves the
\* xyz of a direction as they are, normalized.  For a ray that hits nothing
\* the locals are never computed.
NWorld(rayOrigin, rayDir, objects) ==
    LET closest == ObjectLoop(rayOrigin, rayDir, objects, 0, [t |-> INF, objectID |-> 0 - 1])
        normalObj == GetNormal(HitPosObj(rayOrigin, rayDir, closest.t.v),
                               objects[closest.objectID + 1])
    IN IF closest.t = INF \/ closest.objectID = 0 - 1 THEN {[nan |-> FALSE, v |-> Zero3]}
       ELSE UNION {IF n.nan THEN {n} ELSE NormalizeOutcomes(n.v) : n \in normalObj}

\* pWorld of traceRay: worldMatrix * vec4(hitPosObj, 1.0) for a world matrix
\* that is the translation to object.center (test.frag:807).
PWorld(hitPosObj, object) ==
    <<hitPosObj[1] + object.center[1], hitPosObj[2] + object.center[2],
      hitPosObj[3] + object.center[3]>>

\* x to the power y for a whole y >= 0.
RECURSIVE Power(_, _)
Power(x, y) == IF y = 0 THEN 1 ELSE x * Power(x, y - 1)

\* pow(x, y) of the shader as a set of outcomes: the power, or for x < 0 and
\* for x = 0 with y <= 0, where the result is undefined, what a build can
\* give: NaN, zero, or the power computed all the same.
PowOutcomes(x, y) ==
    IF x < 0 \/ (x = 0 /\ y <= 0)
    THEN {[nan |-> TRUE, v |-> 0], [nan |-> FALSE, v |-> 0], [nan |-> FALSE, v |-> Power(x, y)]}
    ELSE {[nan |-> FALSE, v |-> Power(x, y)]}

\* One turn of the light loop of traceRay (test.frag:821-849): what the
\* turn adds to color, diffuse + specular, as a set of outcomes.
LightTurn(nWorld, pWorld, uCameraPos, lightPos, lightColor, kd, ks, mat) ==
    LET lightDir == Vec3Normalize(Vec3Sub(lightPos, pWorld))
        viewDir == Vec3Normalize(Vec3Sub(uCameraPos, pWorld))
        reflectDir == Vec3Sub(lightDir, Vec3Scale(nWorld.v, 2 * Vec3Dot(lightDir, nWorld.v)))
        nDotL == Vec3Dot(nWorld.v, lightDir)
        diffuse == <<lightColor[1] * (kd * mat.diffuseColor[1] * nDotL),
                     lightColor[2] * (kd * mat.diffuseColor[2] * nDotL),
                     lightColor[3] * (kd * mat.diffuseColor[3] * nDotL)>>
    IN IF nWorld.nan THEN {[nan |-> TRUE, v |-> Zero3]}
       ELSE {IF pw.nan THEN [nan |-> TRUE, v |-> Zero3]
             ELSE [nan |-> FALSE,
                   v |-> <<diffuse[1] + ks * mat.specularColor[1] * pw.v,
                           diffuse[2] + ks * mat.specularColor[2] * pw.v,
                           diffuse[3] + ks * mat.specularColor[3] * pw.v>>] :
             pw \in PowOutcomes(Vec3Dot(reflectDir, viewDir), mat.shininess)}

\* The light loop of traceRay from index i on (test.frag:821-850) for the
\* uniforms and the material r holds: the sequences of what its turns add.
RECURSIVE LightLoopAdded(_, _, _, _)
LightLoopAdded(r, nWorld, pWorld, i) ==
    IF i >= r.uNumLights THEN {<<>>}
    ELSE {<<a>> \o rest :
            a \in LightTurn(nWorld, pWorld, r.rayOrigin, r.uLightPos[i + 1], r.uLightColor,
                            r.kd, r.ks, r.mat),
            rest \in LightLoopAdded(r, nWorld, pWorld, i + 1)}

\* color after the light loop (test.frag:811-853): the ambient term plus
\* what each turn added.
RECURSIVE ColorSum(_, _)
ColorSum(ambientColor, added) ==
    IF added = <<>> THEN [nan |-> FALSE, v |-> ambientColor]
    ELSE LET rest == ColorSum(ambientColor, Tail(added))
         IN IF rest.nan \/ Head(added).nan THEN [nan |-> TRUE, v |-> Zero3]
            ELSE [nan |-> FALSE, v |-> <<rest.v[1] + Head(added).v[1],
                                         rest.v[2] + Head(added).v[2],
                                         rest.v[3] + Head(added).v[3]>>]

\* Rays and scene buffers traced: the eye on the z axis looking down it, and
\* rows for spheres on and off the axis (in front of the eye, around it,
\* touching it and behind it) and for a mesh.
RayOrigins == {<<0, 0, 6>>, <<0, 0, 3>>}

ObjectRows ==
    {[type |-> SHAPE_SPHERE, center |-> c] :
        c \in {<<0, 0, 0>>, <<0, 0, 2>>, <<0, 0, 4>>, <<0, 0, 8>>, <<4, 0, 0>>}}
    \cup {[type |-> SHAPE_MESH, center |-> <<0, 0, 0>>]}

SceneBuffers == UNION {[1..n -> ObjectRows] : n \in 0..MaxObjects}

TraceInit ==
    /\ camera = NewCamera
    /\ camCall = [op |-> "constructor", n |-> 0, returned |-> "ok"]
    /\ graph = <<>>
    /\ flattener = SceneFlattener(0)
    /\ renderer = NewRenderer
    /\ loads = <<>>
    /\ frame = NoFrame
    /\ console = {}
    /\ browser = NewBrowser
    /\ ray \in [traced : {FALSE}, rayOrigin : RayOrigins, rayDir : {<<0, 0, 0 - 1>>},
                 objects : SceneBuffers, uNumLights : {1}]

\* One pixel: main() calls traceRay (test.frag:860-868).
TraceCall ==
    /\ ~ray.traced
    /\ \E nWorld \in NWorld(ray.rayOrigin, ray.rayDir, ray.objects) :
         ray' = [traced |-> TRUE, rayOrigin |-> ray.rayOrigin, rayDir |-> ray.rayDir,
                 objects |-> ray.objects, uNumLights |-> ray.uNumLights,
                 result |-> TraceRay(ray.rayOrigin, ray.rayDir, ray.objects,
                                     ray.uNumLights),
                 nWorld |-> nWorld]
    /\ UNCHANGED <<camera, camCall, graph, flattener, renderer, loads, frame, console, browser>>

TraceNext == TraceCall

TraceSpec == TraceInit /\ [][TraceNext]_vars

\* The positive parameters at which the ray meets the surface of an object,
\* in the geometry itself: the points of the ray on the sphere of radius one
\* half about the object's center.  A mesh has no surface here.
MaxParameter == 12

PositiveHits(rayOrigin, rayDir, object) ==
    IF object.type # SHAPE_SPHERE THEN {}
    ELSE {t \in 1..MaxParameter :
            Vec3Dot(Vec3Sub(<<rayOrigin[1] + t * rayDir[1], rayOrigin[2] + t * rayDir[2],
                              rayOrigin[3] + t * rayDir[3]>>, object.center),
                    Vec3Sub(<<rayOrigin[1] + t * rayDir[1], rayOrigin[2] + t * rayDir[2],
                              rayOrigin[3] + t * rayDir[3]>>, object.center)) = 1}

\* The smallest element of a non-empty set of numbers.
Least(S) == CHOOSE t \in S : \A u \in S : t <= u

\* C18: when no object has a positive hit parameter for the ray (so also when
\* the scene buffer is empty), traceRay returns the background colour
\* (0,0,0) and evaluates no normal, no material and no light.
C18_NoHitIsBackground ==
    (ray.traced /\ \A i \in 1..Len(ray.objects) :
                     PositiveHits(ray.rayOrigin, ray.rayDir, ray.objects[i]) = {})
    => /\ ray.result.returns = "vec3(0.0)"
       /\ ray.result.normalOf = {} /\ ray.result.materialOf = {}
       /\ ray.result.lightsRead = {}

\* The smallest positive hit parameter over all objects of a traced ray that
\* has one.
NearestHit ==
    Least(UNION {PositiveHits(ray.rayOrigin, ray.rayDir, ray.objects[i]) :
                    i \in 1..Len(ray.objects)})

\* C19: when some object has a positive hit parameter, traceRay selects the
\* object whose smallest positive parameter is the smallest of all, and the
\* one of lowest row index among several with that parameter.
C19_NearestHitSelected ==
    (ray.traced /\ \E i \in 1..Len(ray.objects) :
                     PositiveHits(ray.rayOrigin, ray.rayDir, ray.objects[i]) # {})
    => /\ ray.result.objectID >= 0
       /\ NearestHit \in PositiveHits(ray.rayOrigin, ray.rayDir,
                                       ray.objects[ray.result.objectID + 1])
       /\ \A i \in 1..ray.result.objectID :
             NearestHit \notin PositiveHits(ray.rayOrigin, ray.rayDir, ray.objects[i])

\* ---------------------------------------------------------------------------
\* The accessors of the camera.
\* ---------------------------------------------------------------------------
\* look and up that span a plane: neither is zero and they are not parallel.
NonDegenerate(look, up) ==
    /\ ~IsNullVector(look)
    /\ ~IsNullVector(up)
    /\ ~IsNullVector(Vec3Cross(look, up))

PathBefore(p, q) ==
    \/ Len(p) < Len(q) /\ \A j \in 1..Len(p) : p[j] = q[j]
    \/ \E j \in 1..Len(p) :
          /\ j <= Len(q)
          /\ p[j] < q[j]
          /\ \A i \in 1..(j - 1) : p[i] = q[i]

\* C22: objectList is in pre-order, depth first: the record of the k-th
\* primitive of the node at path p stands after exactly the records of the
\* paths before p (ancestors and the sub-trees of earlier children) and of
\* the earlier primitives of the same node.
C22_PreOrder ==
    Flattened =>
      LET objs == flattener.objectList
          expected == UNION {{[path |-> p, k |-> k] :
                                k \in 1..Len(graph[NodeAt(graph, 1, p)].primitives)} :
                             p \in AllPaths(graph)}
          Earlier(x) == {y \in expected :
                           \/ PathBefore(y.path, x.path)
                           \/ y.path = x.path /\ y.k < x.k}
      IN /\ Len(objs) = Cardinality(expected)
         /\ \A x \in expected :
              /\ objs[Cardinality(Earlier(x)) + 1].material = <<NodeAt(graph, 1, x.path), x.k>>
              /\ objs[Cardinality(Earlier(x)) + 1].worldMatrix = PathProduct(graph, 1, x.path)

\* The root has a primitive and two different children, the first of which
\* has a child of its own: the grandchild's records stand between those of
\* the root's two children.
C22_Witness ==
    /\ Flattened
    /\ Len(graph) = 3
    /\ graph[1].primitives # <<>>
    /\ graph[1].children = <<2, 3>>
    /\ graph[2].children # <<>>
    /\ Len(flattener.objectList) >= 5

\* ---------------------------------------------------------------------------
\* Normals of the nearest hit: rays along the axes onto cubes and spheres
\* whose world matrices are translations.  Origins and centers lie on even
\* points of the half-unit grid, so no origin lies on a surface and every hit
\* is at the middle of a face or at a pole.
\* ---------------------------------------------------------------------------
\* Longest scene buffer of a shaded ray.
MaxShaded == 2

ShadeOrigins == {<<4, 0, 0>>, <<8, 0, 0>>, <<0, 0, 6>>}

ShadeDirs == {<<0 - 1, 0, 0>>, <<0, 0, 0 - 1>>}

ShadeRows ==
    [type : {SHAPE_CUBE, SHAPE_SPHERE},
     center : {<<0, 0, 0>>, <<2, 0, 0>>, <<0 - 2, 0, 0>>, <<0, 0, 0 - 4>>}]

\* The material of every shaded object, in whole units of colour.
ShadeMaterial ==
    [ambientColor |-> <<1, 1, 1>>, diffuseColor |-> <<2, 1, 0>>, specularColor |-> <<1, 0, 1>>,
     shininess |-> 2]

\* Lights on the line of the ray, so that the directions to them are exact:
\* one at the eye, one beyond every object.
LightAtEye(r) == r.rayOrigin

LightBehind(r) ==
    <<r.rayOrigin[1] + 12 * r.rayDir[1], r.rayOrigin[2] + 12 * r.rayDir[2],
      r.rayOrigin[3] + 12 * r.rayDir[3]>>

ShadeInit ==
    /\ camera = NewCamera
    /\ camCall = [op |-> "constructor", n |-> 0, returned |-> "ok"]
    /\ graph = <<>>
    /\ flattener = SceneFlattener(0)
    /\ renderer = NewRenderer
    /\ loads = <<>>
    /\ frame = NoFrame
    /\ console = {}
    /\ browser = NewBrowser
    /\ \E r \in [traced : {FALSE}, rayOrigin : ShadeOrigins, rayDir : ShadeDirs,
                   objects : UNION {[1..n -> ShadeRows] : n \in 0..MaxShaded},
                   uLightColor : {<<1, 1, 2>>}, ka : {1}, kd : {1}, ks : {0, 1},
                   mat : {ShadeMaterial}] :
       \E lights \in {<<LightAtEye(r)>>, <<LightBehind(r)>>,
                       <<LightAtEye(r), LightBehind(r)>>} :
         ray = r @@ [uLightPos |-> lights, uNumLights |-> Len(lights)]

\* One pixel of a lit scene: main() calls traceRay, which shades the nearest
\* hit with every light (test.frag:860-868, 755-854).
ShadeCall ==
    /\ ~ray.traced
    /\ \E result \in {TraceRay(ray.rayOrigin, ray.rayDir, ray.objects, ray.uNumLights)} :
       \E nWorld \in NWorld(ray.rayOrigin, ray.rayDir, ray.objects) :
       \E added \in IF result.returns # "color" THEN {<<>>}
                     ELSE LightLoopAdded(ray, nWorld,
                                         PWorld(HitPosObj(ray.rayOrigin, ray.rayDir, result.t),
                                                ray.objects[result.objectID + 1]), 0) :
         ray' = [ray EXCEPT !.traced = TRUE] @@
                [result |-> result, nWorld |-> nWorld, added |-> added,
                 color |-> IF result.returns # "color" THEN [nan |-> FALSE, v |-> Zero3]
                           ELSE ColorSum(Vec3Scale(ray.mat.ambientColor, ray.ka), added)]
    /\ UNCHANGED <<camera, camCall, graph, flattener, renderer, loads, frame, console, browser>>

ShadeSpec == ShadeInit /\ [][ShadeCall]_vars

\* The shape's normal at a point p of its surface, p in the object's own
\* space: the axis of the face for a cube, the radius for a sphere.
ClosedFormNormal(object, p) ==
    IF object.type = SHAPE_SPHERE THEN Vec3Normalize(p)
    ELSE <<IF p[1] = HALF THEN 1 ELSE IF p[1] = 0 - HALF THEN 0 - 1 ELSE 0,
           IF p[2] = HALF THEN 1 ELSE IF p[2] = 0 - HALF THEN 0 - 1 ELSE 0,
           IF p[3] = HALF THEN 1 ELSE IF p[3] = 0 - HALF THEN 0 - 1 ELSE 0>>

\* C23: the normal of the nearest hit is the shape's closed-form normal at
\* the hit point in the object's own space, object-space origin plus t times
\* object-space direction, taken to world space (unchanged, for a
\* translation) and normalized.
C23_NormalAtObjectSpaceHit ==
    (ray.traced /\ ray.result.returns = "color")
    => LET object == ray.objects[ray.result.objectID + 1]
           ro == WorldToObject(ray.rayOrigin, object)
           p == <<ro[1] + ray.result.t * ray.rayDir[1], ro[2] + ray.result.t * ray.rayDir[2],
                  ro[3] + ray.result.t * ray.rayDir[3]>>
       IN /\ ~ray.nWorld.nan
          /\ ray.nWorld.v = ClosedFormNormal(object, p)

\* C24: with non-negative coefficients and colours, what each light adds to
\* the colour is non-negative in every component and is nothing for a light
\* on the back side of the surface (N.L < 0), so that the colour returned is
\* never below the ambient term.
C24_LightsAddNoNegative ==
    (ray.traced /\ ray.result.returns = "color")
    => LET pWorld == PWorld(HitPosObj(ray.rayOrigin, ray.rayDir, ray.result.t),
                            ray.objects[ray.result.objectID + 1])
       IN /\ \A i \in 1..Len(ray.added) :
                /\ ~ray.added[i].nan
                /\ \A c \in 1..3 : ray.added[i].v[c] >= 0
                /\ Vec3Dot(ray.nWorld.v, Vec3Sub(ray.uLightPos[i], pWorld)) < 0
                   => ray.added[i].v = Zero3
          /\ ~ray.color.nan
          /\ \A c \in 1..3 : ray.color.v[c] >= ray.ka * ray.mat.ambientColor[c]

\* ---------------------------------------------------------------------------
\* intersectCone on rays along the axes.  Lengths are counted in quarters of
\* a unit here, so that the cone's radius at every height traced is whole:
\* HALF is 2, the apex is at y = 2 and the base, of radius 2, at y = -2; the
\* parameters are in quarters too.
\* ---------------------------------------------------------------------------
\* intersectCone(ro, rd) (test.frag:587-641).  With ro = e / 4 the code's A,
\* B and C are A / 4, B / 16 and C / 64 of the ones below and its roots are
\* a quarter of t1 and t2.
IntersectCone(ro, rd) ==
    LET ex == ro[1]  ey == ro[2]  ez == ro[3]
        dx == rd[1]  dy == rd[2]  dz == rd[3]
        A == 4 * (dx * dx + dz * dz) - dy * dy
        B == 8 * (ex * dx + ez * dz) - 2 * ey * dy + 4 * dy
        C == 4 * (ex * ex + ez * ez) - ey * ey + 4 * ey - 4
        discriminant == B * B - 4 * A * C
        sqrtD == ISqrt(discriminant)
        t1 == Quotient(0 - B + sqrtD, 2 * A)
        t2 == Quotient(0 - B - sqrtD, 2 * A)
        nearest == IF t1 < 0 /\ t2 < 0 THEN INF
                   ELSE IF t1 < 0 THEN Float(t2)
                   ELSE IF t2 < 0 THEN Float(t1)
                   ELSE Float(IF t1 < t2 THEN t1 ELSE t2)
        \* Check y bounds
        tbody == IF discriminant < 0 \/ nearest = INF THEN INF
                 ELSE IF ey + dy * nearest.v > 2 \/ ey + dy * nearest.v < 0 - 2 THEN INF
                 ELSE nearest
        \* Bottom cap check
        cap == Quotient(0 - 2 - ey, dy)
        capPos == <<ex + dx * cap, ey + dy * cap, ez + dz * cap>>
        tcap == IF dy = 0 THEN INF
                ELSE IF cap > 0 /\ capPos[1] * capPos[1] + capPos[3] * capPos[3] <= 4
                THEN Float(cap)
                ELSE INF
        t == IF FloatLess(tcap, tbody) THEN tcap ELSE tbody
    IN IF t = INF THEN NoHit ELSE t

\* Rays for which the square root and the quotients of intersectCone are
\* whole: along an axis, from points of the plane z = 0 at even heights.
ConeOrigins == {<<x, y, 0>> : x \in {0 - 4, 0 - 1, 0, 1, 4}, y \in {0 - 2, 0, 2, 4, 6}}

ConeDirs == {<<0, 0 - 1, 0>>, <<0, 1, 0>>, <<1, 0, 0>>, <<0 - 1, 0, 0>>}

ConeInit ==
    /\ camera = NewCamera
    /\ camCall = [op |-> "constructor", n |-> 0, returned |-> "ok"]
    /\ graph = <<>>
    /\ flattener = SceneFlattener(0)
    /\ renderer = NewRenderer
    /\ loads = <<>>
    /\ frame = NoFrame
    /\ console = {}
    /\ browser = NewBrowser
    /\ ray \in [traced : {FALSE}, ro : ConeOrigins, rd : ConeDirs]

\* intersect(ro, rd, idx) on a cone row (test.frag:717-721)
ConeCall ==
    /\ ~ray.traced
    /\ ray' = [traced |-> TRUE, ro |-> ray.ro, rd |-> ray.rd,
               t |-> IntersectCone(ray.ro, ray.rd)]
    /\ UNCHANGED <<camera, camCall, graph, flattener, renderer, loads, frame, console, browser>>

ConeSpec == ConeInit /\ [][ConeCall]_vars

\* The point of the ray at parameter t.
RayAt(ro, rd, t) == <<ro[1] + t * rd[1], ro[2] + t * rd[2], ro[3] + t * rd[3]>>

\* The valid candidates in the geometry itself: the positive parameters at
\* which the ray is on the lateral surface (radius half the depth below the
\* apex, at heights from the base to the apex) or crosses the base disc.
ConeCandidates(ro, rd) ==
    {t \in 1..MaxParameter :
        LET p == RayAt(ro, rd, t)
        IN \/ /\ 4 * (p[1] * p[1] + p[3] * p[3]) = (2 - p[2]) * (2 - p[2])
              /\ p[2] >= 0 - 2 /\ p[2] <= 2
           \/ /\ p[2] = 0 - 2 /\ rd[2] # 0
              /\ p[1] * p[1] + p[3] * p[3] <= 4}

\* C25: intersectCone returns the smallest positive parameter among the
\* valid candidates: the lateral roots with y within the cone's height, also
\* the larger one when the smaller is outside it, and the base-cap hit.
C25_ConeSmallestCandidate ==
    (ray.traced /\ ConeCandidates(ray.ro, ray.rd) # {})
    => ray.t = Float(Least(ConeCandidates(ray.ro, ray.rd)))

\* C26: intersectSphere returns a strictly positive parameter or no hit, the
\* smaller strictly positive root when there is one, and the nearest-hit
\* search never selects a sphere that has no strictly positive root (its
\* only non-negative root is 0: the ray starts on it and points outward).
C26_SphereRootsPositive ==
    ray.traced
    => /\ \A i \in 1..Len(ray.objects) :
            ray.objects[i].type = SHAPE_SPHERE
            => LET t == IntersectSphere(WorldToObject(ray.rayOrigin, ray.objects[i]),
                                        ray.rayDir)
                   positive == PositiveHits(ray.rayOrigin, ray.rayDir, ray.objects[i])
               IN /\ t = NoHit \/ t.v > 0
                  /\ positive # {} => t = Float(Least(positive))
       /\ ray.result.returns = "color"
          => PositiveHits(ray.rayOrigin, ray.rayDir,
                          ray.objects[ray.result.objectID + 1]) # {}

\* ---------------------------------------------------------------------------
\* flatten() call by call: the activations of _traverseNode are kept on a
\* stack, so that a traversal that does not come to an end is a behaviour
\* and not a value.  The engine's call stack holds MaxStack activations;
\* one more throws a RangeError out of flatten().
\* ---------------------------------------------------------------------------
MaxStack == 4

\* Steps 1 to 3 of _traverseNode(node, parentMat) (SceneFlattener.js:71-89):
\* the activation, and the records it pushes.
Activation(g, node, parentMat) ==
    [node |-> node, next |-> 1,
     currentMat |-> ApplyTransformations(g[node].transformations, parentMat)]

Pushed(g, node, parentMat) ==
    [k \in 1..Len(g[node].primitives) |->
        [type |-> g[node].primitives[k].type,
         worldMatrix |-> ApplyTransformations(g[node].transformations, parentMat),
         material |-> <<node, k>>]]

\* Every node carries one cube and one translation; the children lists give
\* trees, shared nodes, and cycles within and out of reach of the root.
WalkNode(children) ==
    [transformations |-> <<Translate100>>,
     primitives |-> <<Primitive(SHAPE_CUBE, MaterialPlain)>>,
     children |-> children]

WalkChildren == {<<>>, <<1>>, <<2>>, <<3>>, <<2, 3>>, <<3, 2>>, <<3, 3>>, <<1, 2>>}

WalkInit ==
    /\ camera = NewCamera
    /\ camCall = [op |-> "constructor", n |-> 0, returned |-> "ok"]
    /\ graph \in {<<WalkNode(c1), WalkNode(c2), WalkNode(c3)>> :
                    c1 \in WalkChildren, c2 \in WalkChildren, c3 \in WalkChildren}
    /\ flattener = SceneFlattener(1) @@ [calls |-> <<>>, status |-> "constructed"]
    /\ renderer = NewRenderer
    /\ loads = <<>>
    /\ frame = NoFrame
    /\ console = {}
    /\ browser = NewBrowser
    /\ ray = NoRay

\* flatten() up to its call of _traverseNode(this.rootNode, identityMat)
\* (SceneFlattener.js:19-31)
FlattenEnters ==
    /\ flattener.status = "constructed"
    /\ flattener.rootNode # 0
    /\ flattener' = [flattener EXCEPT
                        !.status = "traversing",
                        !.objectList = Pushed(graph, flattener.rootNode, IdentityMat),
                        !.calls = <<Activation(graph, flattener.rootNode, IdentityMat)>>]
    /\ UNCHANGED <<camera, camCall, graph, renderer, loads, frame, console, browser, ray>>

\* One turn of the loop over node.children in the innermost activation: it
\* calls _traverseNode(child, currentMat) (SceneFlattener.js:91-94).
TraverseDescends ==
    /\ flattener.status = "traversing"
    /\ flattener.calls # <<>>
    /\ LET top == flattener.calls[Len(flattener.calls)]
           children == NodeChildren(graph, top.node)
       IN /\ top.next <= Len(children)
          /\ Len(flattener.calls) < MaxStack
          /\ flattener' = [flattener EXCEPT
                 !.objectList = @ \o Pushed(graph, children[top.next], top.currentMat),
                 !.calls = Append([@ EXCEPT ![Len(@)].next = top.next + 1],
                                  Activation(graph, children[top.next], top.currentMat))]
    /\ UNCHANGED <<camera, camCall, graph, renderer, loads, frame, console, browser, ray>>

\* The call of _traverseNode for which the call stack has no room: the
\* engine throws a RangeError, which unwinds every activation and flatten().
TraverseOverflows ==
    /\ flattener.status = "traversing"
    /\ flattener.calls # <<>>
    /\ LET top == flattener.calls[Len(flattener.calls)]
       IN /\ top.next <= Len(NodeChildren(graph, top.node))
          /\ Len(flattener.calls) >= MaxStack
    /\ flattener' = [flattener EXCEPT !.status = "RangeError", !.calls = <<>>]
    /\ UNCHANGED <<camera, camCall, graph, renderer, loads, frame, console, browser, ray>>

\* The loop over node.children is over: the innermost activation returns.
TraverseReturns ==
    /\ flattener.status = "traversing"
    /\ flattener.calls # <<>>
    /\ LET top == flattener.calls[Len(flattener.calls)]
       IN top.next > Len(NodeChildren(graph, top.node))
    /\ flattener' = [flattener EXCEPT !.calls = SubSeq(@, 1, Len(@) - 1)]
    /\ UNCHANGED <<camera, camCall, graph, renderer, loads, frame, console, browser, ray>>

\* _traverseNode(this.rootNode, ...) has returned: the rest of flatten()
\* (SceneFlattener.js:32-34).
FlattenReturns ==
    /\ flattener.status = "traversing"
    /\ flattener.calls = <<>>
    /\ \E ix \in {IndexTextureMaps(graph, flattener.objectList, 1, <<>>)} :
         /\ flattener' = [flattener EXCEPT
                 !.status = "returned",
                 !.textureMaps = ix.textureMaps,
                 !.dataArray = Float32Array(BuildDataArray(ix.graph, flattener.objectList)),
                 !.flattened = TRUE]
         /\ graph' = ix.graph
    /\ UNCHANGED <<camera, camCall, renderer, loads, frame, console, browser, ray>>

WalkNext ==
    \/ FlattenEnters
    \/ TraverseDescends
    \/ TraverseOverflows
    \/ TraverseReturns
    \/ FlattenReturns

\* A call that has begun runs on: the engine takes every step it can.
WalkSpec == WalkInit /\ [][WalkNext]_vars /\ WF_vars(WalkNext)

\* The nodes a set of nodes reaches along children lists, itself included.
ChildrenOf(g, n) == {g[n].children[i] : i \in 1..Len(g[n].children)}

RECURSIVE ReachableFrom(_, _)
ReachableFrom(g, S) ==
    LET T == S \cup UNION {ChildrenOf(g, n) : n \in S}
    IN IF T = S THEN S ELSE ReachableFrom(g, T)

\* Some node within reach of node r is its own descendant.
CycleFrom(g, r) ==
    \E n \in ReachableFrom(g, {r}) : n \in ReachableFrom(g, ChildrenOf(g, n))

CycleFromRoot(g) == CycleFrom(g, 1)

\* C27: on a graph without a cycle within reach of the root flatten() comes
\* to its end; on a graph with one it never returns normally, there being no
\* cycle detection.
C27_ReturnsIffAcyclic ==
    /\ ~CycleFromRoot(graph) => <>(flattener.status = "returned")
    /\ CycleFromRoot(graph) => [](flattener.status # "returned")

\* A walk of a graph with a cycle out of reach of the root that has
\* returned, the root's sub-tree holding a shared node.
C27_Witness ==
    /\ flattener.status = "returned"
    /\ ~CycleFromRoot(graph)
    /\ graph[1].children = <<3, 3>>
    /\ graph[2].children = <<1, 2>>
    /\ Len(flattener.objectList) = 3

\* ---------------------------------------------------------------------------
\* Overlapping loads.
\* ---------------------------------------------------------------------------
\* The renderer and the camera a load of the file alone leaves behind.
LoadedAlone(file) ==
    LET parsed == ParseFromString(file)
        fl == Flatten(SceneFlattener(parsed.parser.rootNode), parsed.parser.objects)
        r == CreateSceneDataTexture([NewRenderer EXCEPT !.sceneParser = parsed.parser],
                                    GetFloat32Array(fl.flattener),
                                    GetObjectCount(fl.flattener),
                                    fl.flattener.floatsPerObject)
    IN FinishLoad(r, NewCamera, MapFilenames(fl.flattener, fl.graph))

\* C28: once every load that was started has finished, overlapping or not,
\* the scene texture, the object count, the texture set, the parser and the
\* camera are all those of one load, the one started last.
C28_LastStartedLoadWins ==
    (Len(loads) >= 2 /\ \A i \in 1..Len(loads) : loads[i].at = "done")
    => \E want \in {LoadedAlone(FileNamed(loads[Len(loads)].file))} :
         /\ renderer.sceneTexture = want.renderer.sceneTexture
         /\ renderer.objectCount = want.renderer.objectCount
         /\ renderer.textures = want.renderer.textures
         /\ renderer.sceneParser = want.renderer.sceneParser
         /\ camera = want.camera

\* ---------------------------------------------------------------------------
\* The <object> elements of a scene file, as the parser reads them.  An
\* element is its name and its <transblock> children; a transblock is the
\* list of its children: <translate>, <object type="primitive"> and
\* <object type="master" name=...>.  Nested <object type="tree"> elements,
\* which have no name and cannot be referred to, are not among the files
\* parsed.
\* ---------------------------------------------------------------------------
XmlTranslate == [tag |-> "translate"]

XmlPrimitive == [tag |-> "object", type |-> "primitive"]

XmlMaster(name) == [tag |-> "object", type |-> "master", name |-> name]

\* new SceneNode() (SceneDataStructures.js)
SceneNode == [transformations |-> <<>>, primitives |-> <<>>, children |-> <<>>]

\* _parseTransBlock(transblockElem, node) from item i on (render.js:798-868).
\* p is the parser: nodes is this.nodes, a node being its index, objects is
\* this.objects.
RECURSIVE ParseTransBlock(_, _, _, _)
ParseTransBlock(p, items, i, node) ==
    IF i > Len(items) THEN [p EXCEPT !.ok = TRUE]
    ELSE CASE items[i].tag = "translate" ->
                ParseTransBlock([p EXCEPT !.nodes[node].transformations =
                                              Append(@, Translate100)],
                                items, i + 1, node)
           [] items[i].tag = "object" /\ items[i].type = "primitive" ->
                ParseTransBlock([p EXCEPT !.nodes[node].primitives =
                                     Append(@, Primitive(SHAPE_CUBE, MaterialPlain))],
                                items, i + 1, node)
           [] items[i].tag = "object" /\ items[i].type = "master" ->
                IF items[i].name \notin DOMAIN p.objects
                THEN [p EXCEPT !.ok = FALSE,
                               !.reports = @ \cup {"Invalid master object reference:"}]
                ELSE ParseTransBlock([p EXCEPT !.nodes[node].children =
                                                   Append(@, p.objects[items[i].name])],
                                     items, i + 1, node)

\* The loop over the <transblock> children of an <object> element
\* (render.js:778-789), from transblock i on.
RECURSIVE ParseTransBlocks(_, _, _, _)
ParseTransBlocks(p, transblocks, i, node) ==
    IF i > Len(transblocks) THEN [p EXCEPT !.ok = TRUE]
    ELSE LET childNode == Len(p.nodes) + 1
             q == ParseTransBlock([p EXCEPT !.nodes = Append(@, SceneNode)],
                                  transblocks[i], 1, childNode)
         IN IF ~q.ok THEN q
            ELSE ParseTransBlocks([q EXCEPT !.nodes[node].children = Append(@, childNode)],
                                  transblocks, i + 1, node)

\* _parseObjectData(elem) (render.js:756-792)
ParseObjectData(p, elem) ==
    IF elem.name \in DOMAIN p.objects
    THEN [p EXCEPT !.ok = FALSE, !.reports = @ \cup {"Duplicate object name:"}]
    ELSE LET node == Len(p.nodes) + 1
         IN ParseTransBlocks([p EXCEPT !.nodes = Append(@, SceneNode),
                                       !.objects = (elem.name :> node) @@ @],
                             elem.transblocks, 1, node)

\* The loop of parseFromString over the <object> children of <scenefile>
\* (render.js:508-541), from element i on.
RECURSIVE ParseElements(_, _, _)
ParseElements(p, elems, i) ==
    IF i > Len(elems) THEN [p EXCEPT !.ok = TRUE]
    ELSE LET q == ParseObjectData(p, elems[i])
         IN IF ~q.ok THEN [q EXCEPT !.reports = @ \cup {"Failed to parse <object>"}]
            ELSE ParseElements(q, elems, i + 1)

\* getRootNode() (render.js:977-979); 0 is null.
GetRootNode(p) == IF "root" \in DOMAIN p.objects THEN p.objects["root"] ELSE 0

\* The scene files parsed: one or two <object> elements named root or leaf,
\* each with up to two transblocks out of XmlTransBlocks.
XmlTransBlocks ==
    {<<XmlTranslate, XmlPrimitive>>, <<XmlMaster("leaf")>>, <<XmlMaster("root")>>,
     <<XmlPrimitive, XmlMaster("leaf")>>, <<XmlMaster("ghost")>>}

XmlObjects ==
    [name : {"root", "leaf"},
     transblocks : {<<>>} \cup {<<t>> : t \in XmlTransBlocks}
                         \cup {<<t1, t2>> : t1 \in XmlTransBlocks, t2 \in XmlTransBlocks}]

XmlFiles == {<<a>> : a \in XmlObjects} \cup {<<a, b>> : a \in XmlObjects, b \in XmlObjects}

ParseInit ==
    /\ camera = NewCamera
    /\ camCall = [op |-> "constructor", n |-> 0, returned |-> "ok"]
    /\ graph = <<>>
    /\ flattener = SceneFlattener(0) @@ [calls |-> <<>>, status |-> "none"]
    /\ renderer = NewRenderer
    /\ \E file \in XmlFiles : loads = <<[file |-> file, at |-> "picked"]>>
    /\ frame = NoFrame
    /\ console = {}
    /\ browser = NewBrowser
    /\ ray = NoRay

\* reader.onload up to new SceneFlattener(rootNode) (render.js:110-118): the
\* file is parsed; if parseFromString returns false the handler throws.
ParseCall ==
    /\ loads[1].at = "picked"
    /\ \E p \in {ParseElements([nodes |-> <<>>, objects |-> <<>>, ok |-> TRUE, reports |-> {}],
                                loads[1].file, 1)} :
         /\ console' = console \cup p.reports \cup (IF p.ok THEN {} ELSE CatchReports)
         /\ loads' = [loads EXCEPT ![1].at = IF p.ok THEN "parsed" ELSE "failed"]
         /\ graph' = IF p.ok THEN p.nodes ELSE graph
         /\ flattener' = IF p.ok
                         THEN SceneFlattener(GetRootNode(p))
                              @@ [calls |-> <<>>, status |-> "constructed"]
                         ELSE flattener
    /\ UNCHANGED <<camera, camCall, renderer, frame, browser, ray>>

\* flatten() on a null root (SceneFlattener.js:20-23)
FlattenRefuses ==
    /\ flattener.status = "constructed"
    /\ flattener.rootNode = 0
    /\ flattener' = [flattener EXCEPT !.status = "refused"]
    /\ console' = console \cup FlattenReports(flattener)
    /\ UNCHANGED <<camera, camCall, graph, renderer, loads, frame, browser, ray>>

ParseNext == ParseCall \/ FlattenRefuses \/ WalkNext

ParseSpec == ParseInit /\ [][ParseNext]_vars /\ WF_vars(ParseNext)

\* C29: every graph parseFromString accepts is acyclic from its root: no
\* master reference makes a node its own descendant, so that flatten() on a
\* parsed scene never ends in a RangeError.
C29_ParsedGraphAcyclic ==
    /\ (loads[1].at = "parsed" /\ flattener.rootNode # 0)
       => ~CycleFrom(graph, flattener.rootNode)
    /\ flattener.status # "RangeError"

\* ---------------------------------------------------------------------------
\* Rotations in place.
\* ---------------------------------------------------------------------------
\* C30: rotateU, rotateV, rotateW and setRotUVW never move the camera: called
\* in a state whose matrices are invertible, with any angle, they leave
\* getEyePoint() as it was.
C30_RotationsKeepEye ==
    [][(/\ camCall'.op \in {"rotateU", "rotateV", "rotateW", "setRotUVW"}
        /\ Mat4Det(camera.cameraToWorldMat4) # 0
        /\ Mat4Det(camera.worldToCameraMat4) # 0)
       => GetEyePoint(camera') = GetEyePoint(camera)]_vars

\* A setRotUVW that turned a camera which an earlier call had moved off the
\* eye point of the constructor.
C30_Witness ==
    /\ camCall.op = "setRotUVW"
    /\ camCall.returned = "ok"
    /\ camCall.n = 2
    /\ camCall.uvw[2] = 90
    /\ camera.rotV = 90
    /\ GetEyePoint(camera) \notin {GetEyePoint(NewCamera), Zero3}
    /\ GetLookVector(camera) # GetLookVector(NewCamera)
====
